---- MODULE Spec2Model ----
(***************************************************************************)
(* A model of the attack traffic synthesis of ID2T.                        *)
(*                                                                         *)
(* Part 1: SMBScanAttack.generate_attack_packets                           *)
(* (src/code/Attack/SMBScanAttack.py): target and hosting selection, the   *)
(* per-target connection (handshake, SMB negotiation, teardown, or a       *)
(* single reset), the sequence counters and the timestamp cursor.          *)
(*                                                                         *)
(* Addresses are numbers: 1..ip_addr_count are the addresses of the        *)
(* background capture (1 is the most used one), ExtAddrs are addresses     *)
(* outside the capture, Placeholder stands for the literal "1.1.1.1".      *)
(* hosting.percentage is kept in percent so that len * percentage and its  *)
(* truncation by int() are exact.  Timestamps are whole time units.        *)
(***************************************************************************)
EXTENDS Integers, Sequences, FiniteSets, TLC

(***************************************************************************)
(* Bounds of the model.                                                    *)
(***************************************************************************)
MaxAddrs == 3
MaxTargets == 2
MaxUser == 2
MaxJitter == 1
RngStates == 4
MaxAttacks == 3
MaxMsgs == 3
MaxIds == 2
MaxPackets == 3

(***************************************************************************)
(* Program constants.                                                      *)
(***************************************************************************)
\* rnd.randint(1000, 50000), lines 249-250
SEQ_LOW == 1000
SEQ_HIGH == 50000
\* the reduced dialect list smb_dialects[0:6], line 305
REDUCED_DIALECTS == 6
\* len(NBTSession(...)): the 4-byte NetBIOS session header, lines 320, 375
NBT_LEN == 4
\* len(SMBNegociate_Protocol_Request_Header(...)): 32-byte SMB header,
\* WordCount and ByteCount, line 317
REQ_HEAD_LEN == 35
\* SMBNegociate_Protocol_Response_Advanced_Security without its blob, line 372
RSP_ADV_LEN == 85
\* SMB2.SMB2_SYNC_Header, line 360
SMB2_HEAD_LEN == 64
\* SMB2_Negotiate_Protocol_Response without its blob; with the header it
\* gives SecurityBufferOffset=124, line 362
SMB2_BODY_LEN == 60
\* len(security_blob) of SMBLib.get_smb_platform_data, line 348
SECURITY_BLOB_LEN == 74
\* the literal "1.1.1.1" of a destination or hosting address that is not
\* set, lines 83, 102, 136, 161
Placeholder == 0

\* addresses outside the capture
ExtAddrs == {91, 92}
\* mac.dst is no string (no MAC address known for the destination), line 194
NoMac == 0
\* a MAC address no address of the capture has, line 196
UnknownMac == 99

\* SMBLib.smb_versions and SMBLib.smb_dialects
smb_versions == {"1", "2.0", "2.1", "3.0", "3.0.2", "3.1.1"}
smb_dialects ==
    << "PC NETWORK PROGRAM 1.0", "LANMAN1.0", "Windows for Workgroups 3.1a",
       "LM1.2X002", "LANMAN2.1", "NT LM 0.12", "SMB 2.002", "SMB 2.???" >>

VARIABLES
    stats,              \* the statistics snapshot: [ip_addr_count, jitter]
    params,             \* self.params: the attack's parameter values
    pc,                 \* position in generate_attack_packets
    ip_source,          \* local ip_source (the resolved or randomized source)
    ip_dests,           \* local ip_dests: the list that is iterated
    hosting_ip,         \* local hosting_ip
    idx,                \* position of the for loop in ip_dests (1-based)
    attacker_seq,       \* local attacker_seq
    victim_seq,         \* local victim_seq
    min_delay,          \* local min_delay of the current connection
    timestamp_next_pkt, \* local timestamp_next_pkt (the SYN timestamps)
    timestamp_prev,     \* the local holding the previous packet's timestamp
    cursor,             \* timestamp_controller.current_timestamp
    n_packets,          \* len(self.packets)
    last_pkt,           \* self.packets[-1]
    conns,              \* per loop iteration: the packets it added (sender, flags)
    hist,               \* history: ISNs, octets sent, selection facts, controller returns
    attack_end_utime    \* self.attack_end_utime

vars == << stats, params, pc, ip_source, ip_dests, hosting_ip, idx,
           attacker_seq, victim_seq, min_delay, timestamp_next_pkt,
           timestamp_prev, cursor, n_packets, last_pkt, conns, hist,
           attack_end_utime >>

\* Part 2: parameter resolution of one attack instance (init_param and the
\* parameter store of BaseAttack)
VARIABLES
    attack_params,      \* self.params: key -> stored value, None when not set
    user_params,        \* the explicit inputs of the run: key -> value or None
    rng,                \* the state of the process-wide random generator
    host_os,            \* self.host_os, drawn in __init__
    ret,                \* what the last init_param call returned
    asked,              \* the key the last init_param call was made for
    ppc,                \* position of the resolution run
    first_resolved      \* history: the store the first resolution left

pvars == << attack_params, user_params, rng, host_os, ret, asked, ppc,
            first_resolved >>

\* Part 3: Controller.process_attacks
VARIABLES
    attacks_config,     \* the attacks to run: for each, whether it yields packets
    seeds,              \* the seeds argument: a list of one-element lists
    inject_empty,       \* the inject_empty argument
    cpc,                \* position in process_attacks
    atk_i,              \* local i of the loop over attacks_config (0-based)
    merge_i,            \* local i of the merge loop (0-based)
    written_pcaps,      \* self.written_pcaps
    durations,          \* self.durations
    added_packets,      \* self.added_packets
    attacks_pcap_path,  \* local attacks_pcap_path
    files,              \* the files that exist, with their contents
    label_written,      \* whether write_label_file was called
    reported_none,      \* whether "No packets were injected" was printed
    clog                \* history: calls made, merges tried, the first run's output

cvars == << attacks_config, seeds, inject_empty, cpc, atk_i, merge_i,
            written_pcaps, durations, added_packets, attacks_pcap_path,
            files, label_written, reported_none, clog >>

\* the parameter store of the attack instance, without the generator and
\* the instance's host_os
\* CommunicationProcessor (src/code/ID2TLib/Botnet/CommunicationProcessor.py):
\* the message log of cpp_comm_proc, the fields of lines 31-36, the loop
\* index of get_comm_interval, its position and the value it returned
VARIABLES
    msgs, strategy, number_ids, max_int_time, start_idx, end_idx, interval,
    tries, ipc, returned

\* det_id_roles_and_msgs and det_ext_and_local_ids (lines 152-247, 271-298):
\* self.packets as far as the loop has read it, self.nat, the selected
\* initiators, the locals msgs, msg_id, prev_reqs, req_seen, respnd_ids and
\* external_init_ids, the position, and the result of the locality step
VARIABLES
    packets, nat, local_init_ids, messages, msg_id, prev_reqs, req_seen,
    respnd_ids, external_init_ids, rpc, local_ids, external_ids,
    prob_rspnd_local

\* StatsDatabase (lines 31-51, 156-193, 406-419): the list
\* self.current_interval_statistics_tables, the name the database holds as
\* default interval table, the table the last interval query ran on, the
\* position, and the history of the set calls
VARIABLES
    current_interval_statistics_tables, default_table, query_table, spc,
    sdb_hist

svars == << current_interval_statistics_tables, default_table, query_table,
            spc, sdb_hist >>

\* a table name: "interval_statistics_<usec>", the empty string, and the
\* empty list process_db_query gives when no row matches
IntervalTable(usec) == [kind |-> "name", usec |-> usec]
EmptyName == [kind |-> "empty", usec |-> 0]
NoRow == [kind |-> "norow", usec |-> 0]

\* no statistics database in use
StatsDbIdle ==
    /\ current_interval_statistics_tables = << >>
    /\ default_table = NoRow
    /\ query_table = EmptyName
    /\ spc = "idle"
    /\ sdb_hist = << >>

rvars == << packets, nat, local_init_ids, messages, msg_id, prev_reqs,
            req_seen, respnd_ids, external_init_ids, rpc, local_ids,
            external_ids, prob_rspnd_local, svars >>

\* no role pass in progress
RolesIdle ==
    /\ packets = << >>
    /\ nat = FALSE
    /\ local_init_ids = {}
    /\ messages = << >>
    /\ msg_id = 0
    /\ prev_reqs = << >>
    /\ req_seen = FALSE
    /\ respnd_ids = {}
    /\ external_init_ids = {}
    /\ rpc = "idle"
    /\ local_ids = {}
    /\ external_ids = {}
    /\ prob_rspnd_local = 0

ivars == << msgs, strategy, number_ids, max_int_time, start_idx, end_idx,
            interval, tries, ipc, returned, rvars >>

\* Python's None, the empty dict and a dict {IDs, Start, End}
IntervalNone == [kind |-> "None", IDs |-> {}, Start |-> 0, End |-> 0]
EmptyInterval == [kind |-> "empty", IDs |-> {}, Start |-> 0, End |-> 0]
MkInterval(ids, s, e) == [kind |-> "dict", IDs |-> ids, Start |-> s, End |-> e]

\* the communication processor while it is not looked at
CommIdle ==
    /\ msgs = << >>
    /\ strategy = ""
    /\ number_ids = 0
    /\ max_int_time = 0
    /\ start_idx = 0
    /\ end_idx = 0
    /\ interval = IntervalNone
    /\ tries = 0
    /\ ipc = "idle"
    /\ returned = IntervalNone
    /\ RolesIdle
    /\ StatsDbIdle

store_vars == << attack_params, user_params, ret, asked, ppc, first_resolved >>

\* everything generate_attack_packets leaves alone
non_smb_vars == << pvars, cvars, ivars >>

\* the controller while process_attacks is not running
CtlIdle ==
    /\ attacks_config = << >>
    /\ seeds = << >>
    /\ inject_empty = FALSE
    /\ cpc = "idle"
    /\ atk_i = 0
    /\ merge_i = 0
    /\ written_pcaps = << >>
    /\ durations = << >>
    /\ added_packets = 0
    /\ attacks_pcap_path = << >>
    /\ files = << >>
    /\ label_written = FALSE
    /\ reported_none = FALSE
    /\ clog = << >>

\* the parameter store while it is not looked at
StoreIdle ==
    /\ attack_params = << >>
    /\ user_params = << >>
    /\ ret = FALSE
    /\ asked = ""
    /\ ppc = "idle"
    /\ first_resolved = << >>

ParamIdle ==
    /\ StoreIdle
    /\ rng = 0
    /\ host_os = 0

\* the locals of generate_attack_packets while it is not running
SmbIdle ==
    /\ stats = [ip_addr_count |-> MaxAddrs, jitter |-> 0]
    /\ params = << >>
    /\ pc = "idle"
    /\ ip_source = 0
    /\ ip_dests = << >>
    /\ hosting_ip = << >>
    /\ idx = 0
    /\ attacker_seq = 0
    /\ victim_seq = 0
    /\ min_delay = 0
    /\ timestamp_next_pkt = 0
    /\ timestamp_prev = 0
    /\ cursor = 0
    /\ n_packets = 0
    /\ last_pkt = << >>
    /\ conns = << >>
    /\ hist = << >>
    /\ attack_end_utime = 0

(***************************************************************************)
(* Helpers on sequences.                                                   *)
(***************************************************************************)
Range(s) == {s[i] : i \in 1..Len(s)}

RECURSIVE SumSeq(_)
SumSeq(s) == IF s = << >> THEN 0 ELSE Head(s) + SumSeq(Tail(s))

Min(a, b) == IF a < b THEN a ELSE b
Max(a, b) == IF a > b THEN a ELSE b

\* Python's list.remove(x): drops the first occurrence only
RECURSIVE ListRemove(_, _)
ListRemove(s, x) ==
    IF s = << >> THEN << >>
    ELSE IF Head(s) = x THEN Tail(s)
    ELSE << Head(s) >> \o ListRemove(Tail(s), x)

\* Python's int(): truncation towards zero, of num/100
IntTrunc100(num) == IF num >= 0 THEN num \div 100 ELSE -((-num) \div 100)

\* Python's s[:k], also for negative k
SlicePrefix(s, k) ==
    IF k >= 0 THEN SubSeq(s, 1, Min(k, Len(s)))
    ELSE SubSeq(s, 1, Max(Len(s) + k, 0))

\* every order rnd.shuffle can leave a list in
Shuffles(s) ==
    { [i \in 1..Len(s) |-> s[p[i]]] : p \in Permutations(1..Len(s)) }

\* all lists of n distinct elements of S
DistinctSeqs(S, n) ==
    { s \in [1..n -> S] : \A i, j \in 1..n : i # j => s[i] # s[j] }


(***************************************************************************)
(* The statistics collaborator (read-only during synthesis).               *)
(***************************************************************************)
\* all(ipAddress): the addresses of the capture
CaptureAddrs == 1..stats.ip_addr_count

\* Statistics.get_random_ip_address(count): count addresses of the capture,
\* no address twice; a count of zero or less yields the empty list
get_random_ip_address(count) == DistinctSeqs(CaptureAddrs, Max(count, 0))

\* the ip_mac table of the snapshot: two neighbouring addresses share a MAC
MacOf(ip) == (ip + 1) \div 2

\* Statistics.get_ip_address_from_mac(mac): ascending list of its addresses
RECURSIVE AscendingFrom(_, _)
AscendingFrom(S, lo) ==
    IF \A x \in S : x < lo THEN << >>
    ELSE LET m == CHOOSE x \in S : x >= lo /\ \A y \in S : y >= lo => x <= y
         IN << m >> \o AscendingFrom(S, m + 1)

get_ip_address_from_mac(mac) ==
    AscendingFrom({ip \in CaptureAddrs : MacOf(ip) = mac}, 1)

\* BaseAttack.get_reply_latency(ip_source, ip)[0]: the estimate of the pair
get_reply_latency(src, ip) == ip % 2

\* BaseAttack.generate_random_ipv4_address("Unknown", 1)
generate_random_ipv4_address == ExtAddrs

(***************************************************************************)
(* The timestamp controller.                                               *)
(***************************************************************************)
\* TimestampController.next_timestamp(latency): the values it can return
\* from cursor value cur; the delay is at least latency, never negative,
\* and spreads as far as the snapshot's latency model says
next_timestamp(cur, latency) ==
    { cur + d : d \in latency..(latency + stats.jitter) }

(***************************************************************************)
(* Target and hosting selection, lines 127-168.                            *)
(***************************************************************************)
\* a variant of lines 127-130 that never caps
CappedCountNone(target_count, ip_addr_count) == target_count

\* lines 127-130
CappedCount(target_count, ip_addr_count) ==
    IF ip_addr_count < target_count + 1 THEN ip_addr_count ELSE target_count

\* lines 133-140 and 158-165: the addresses the user supplied
UserList(p) ==
    IF p.isList THEN p.ips
    ELSE IF p.ips # << Placeholder >> THEN p.ips
    ELSE << >>

\* lines 134-137: what is left to sample
SampleCount(count, p) ==
    IF p.isList THEN count - Len(p.ips)
    ELSE IF p.ips # << Placeholder >> THEN count - 1
    ELSE count

\* lines 149-150
RemoveSource(dests, src) ==
    IF src \in Range(dests) THEN ListRemove(dests, src) ELSE dests

\* lines 154-165 with int() of line 167; pct is hosting.percentage * 100
HostingCount(n_dests, pct, p) ==
    IntTrunc100(n_dests * pct - 100 * Len(UserList(p)))

\* line 167
HostingList(p, dests, k) == UserList(p) \o SlicePrefix(dests, k)

\* a variant of lines 178-183 that checks protocol.version only
VersionsValidFirstOnly(smb_version, hosting_version) ==
    smb_version \in smb_versions

\* lines 178-183
VersionsValid(smb_version, hosting_version) ==
    smb_version \in smb_versions /\ hosting_version \in smb_versions

\* BaseAttack.ip_src_dst_catch_equal, line 199: exits when the source is
\* one of the destinations
ip_src_dst_catch_equal(src, dests) == src \in Range(dests)

(***************************************************************************)
(* The SMB negotiation payloads, lines 297-389.  A payload is the list of  *)
(* the lengths of the layers stacked on the TCP header.                    *)
(***************************************************************************)
\* lines 303-307
ReqDialects(smb_version) ==
    IF smb_version = "1" THEN SubSeq(smb_dialects, 1, REDUCED_DIALECTS)
    ELSE smb_dialects

\* len(SMBNegociate_Protocol_Request_Tail(BufferData=dia)): the BufferFormat
\* byte and the null-terminated dialect string
TailLen(dia) == 1 + Len(dia) + 1

\* lines 308-314: the tail entries of the request
ReqTails(dialects) ==
    IF Len(dialects) = 0 THEN << TailLen("NT LM 0.12") >>
    ELSE [i \in 1..Len(dialects) |-> TailLen(dialects[i])]

\* smb_req_tail_size, lines 310 and 314
ReqTailSize(dialects) == SumSeq(ReqTails(dialects))

\* lines 327-330: the layers of the request as they are stacked
ReqLayers(dialects) == << NBT_LEN, REQ_HEAD_LEN >> \o ReqTails(dialects)

\* a variant of line 325 that forgets the NetBIOS session header
ReqSeqAdvanceNoNbt(dialects) == REQ_HEAD_LEN + ReqTailSize(dialects)

\* line 325: what attacker_seq is advanced by
ReqSeqAdvance(dialects) == NBT_LEN + REQ_HEAD_LEN + ReqTailSize(dialects)

\* a variant of line 359 with "or" for "and"
UsesSMB2Either(smb_version, hosting_version) ==
    smb_version # "1" \/ hosting_version # "1"

\* lines 359, 381, 385
UsesSMB2(smb_version, hosting_version) ==
    smb_version # "1" /\ hosting_version # "1"

\* lines 360-374: smb_rsp_packet and, for SMB2, smb_rsp_negotiate_body
RspPacketLen(smb2) ==
    IF smb2 THEN SMB2_HEAD_LEN ELSE RSP_ADV_LEN + SECURITY_BLOB_LEN

RspBodyLen == SMB2_BODY_LEN + SECURITY_BLOB_LEN

\* lines 384-386: the layers of the response as they are stacked
RspLayers(smb2) ==
    IF smb2 THEN << NBT_LEN, RspPacketLen(smb2), RspBodyLen >>
    ELSE << NBT_LEN, RspPacketLen(smb2) >>

\* lines 380-382: what victim_seq is advanced by
RspSeqAdvance(smb2) ==
    NBT_LEN + RspPacketLen(smb2) + (IF smb2 THEN RspBodyLen ELSE 0)

(***************************************************************************)
(* Packets.  snd is "a" (the attacker) or "v" (the target).                *)
(***************************************************************************)
NoPkt ==
    [ src |-> 0, dst |-> 0, snd |-> "", flags |-> "", seq |-> 0, ack |-> 0,
      payload |-> << >>, time |-> 0, dialects |-> << >>, shape |-> "" ]

TcpPkt(src, dst, snd, flags, seq, ack, time) ==
    [ src |-> src, dst |-> dst, snd |-> snd, flags |-> flags, seq |-> seq,
      ack |-> ack, payload |-> << >>, time |-> time, dialects |-> << >>,
      shape |-> "" ]

\* the octets of TCP payload on the wire
WireLen(p) == SumSeq(p.payload)

\* sequence numbers a packet consumes: its payload, and one for SYN or FIN
SeqSpace(p) ==
    WireLen(p) + (IF p.flags \in {"S", "SA", "FA"} THEN 1 ELSE 0)

(***************************************************************************)
(* The runs that are explored: the capture, the user's parameters.         *)
(***************************************************************************)
PctChoices == {0, 50, 100}
VersionChoices == {"1", "2.1", "4"}
UserAddrs == {1, 2}
MacChoices == {1, 2, UnknownMac}

DefaultIp == [isList |-> FALSE, ips |-> << Placeholder >>]

\* an IPAddress parameter the user has set: one address, or a list
UserIps ==
    { [isList |-> FALSE, ips |-> << a >>] : a \in UserAddrs }
    \cup { [isList |-> TRUE, ips |-> l] :
             l \in UNION { [1..n -> UserAddrs] : n \in 2..MaxUser } }

Config(pop, jit, tc, pct, dst, host, mac, shuf, ver, hver) ==
    [ pop |-> pop, jit |-> jit, tc |-> tc, pct |-> pct, dst |-> dst,
      host |-> host, mac |-> mac, shuf |-> shuf, ver |-> ver, hver |-> hver ]

Configs ==
    \* every pair of versions; jittered timestamps where the two agree
    { Config(MaxAddrs, IF ver = hver THEN MaxJitter ELSE 0, MaxTargets, 50,
             DefaultIp, DefaultIp, NoMac, FALSE, ver, hver) :
        ver \in VersionChoices, hver \in VersionChoices }
    \* captures of every size, every target.count, source randomization
    \cup { Config(pop, 0, tc, pct, DefaultIp, DefaultIp, NoMac, shuf,
                  "2.1", "2.1") :
        pop \in 1..MaxAddrs, tc \in 1..MaxTargets, pct \in PctChoices,
        shuf \in BOOLEAN }
    \* user destinations
    \cup { Config(pop, 0, tc, 50, dst, DefaultIp, NoMac, FALSE, "1", "1") :
        pop \in {1, MaxAddrs}, tc \in {1, MaxTargets}, dst \in UserIps }
    \* more user destinations than target.count
    \cup { Config(MaxAddrs, 0, 1, 50, [isList |-> TRUE, ips |-> << 2, 3 >>],
                  DefaultIp, NoMac, FALSE, "1", "1") }
    \* user hosting addresses
    \cup { Config(MaxAddrs, 0, MaxTargets, pct, DefaultIp, host, NoMac, FALSE,
                  "1", "1") :
        pct \in PctChoices, host \in UserIps }
    \* a destination MAC address
    \cup { Config(MaxAddrs, 0, MaxTargets, 100, DefaultIp, host, mac, shuf,
                  "1", "2.1") :
        host \in {DefaultIp, [isList |-> FALSE, ips |-> << 2 >>]},
        mac \in MacChoices, shuf \in BOOLEAN }

Init ==
    \E c \in Configs :
        /\ stats = [ip_addr_count |-> c.pop, jitter |-> c.jit]
        /\ params =
             [ ip_src |-> 1, ip_dst |-> c.dst, hosting_ip |-> c.host,
               mac_dst |-> c.mac, target_count |-> c.tc,
               hosting_pct |-> c.pct, ip_src_shuffle |-> c.shuf,
               protocol_version |-> c.ver, hosting_version |-> c.hver,
               inject_at_timestamp |-> 0 ]
        /\ pc = "start"
        /\ ip_source = 1
        /\ ip_dests = << >>
        /\ hosting_ip = << >>
        /\ idx = 1
        /\ attacker_seq = 0
        /\ victim_seq = 0
        /\ min_delay = 0
        /\ timestamp_next_pkt = 0
        /\ timestamp_prev = 0
        /\ cursor = 0
        /\ n_packets = 0
        /\ last_pkt = NoPkt
        /\ conns = << >>
        /\ hist = [ isn_a |-> 0, isn_v |-> 0, sent_a |-> 0, sent_v |-> 0,
                    returned |-> 0, prev_returned |-> 0,
                    user_dst |-> c.dst, user_host |-> c.host,
                    sampled |-> 0, latest |-> 0 ]
        /\ attack_end_utime = 0
        /\ ParamIdle
        /\ CtlIdle
        /\ CommIdle

(***************************************************************************)
(* generate_attack_packets, lines 119-223: everything before the loop.     *)
(***************************************************************************)
\* lines 193-197: the destinations a destination MAC address replaces the
\* selected ones by
MacDests(mac) ==
    LET from_mac == get_ip_address_from_mac(mac)
    IN  IF Len(from_mac) # 0 THEN {from_mac}
        ELSE { << r >> : r \in generate_random_ipv4_address }

\* lines 211-214: the source the packets carry
SourceChoices(src, dests, shuffle) ==
    IF shuffle THEN generate_random_ipv4_address \ Range(dests) ELSE {src}

\* the process ends (SMBLib.invalid_smb_version, ip_src_dst_catch_equal)
Abort ==
    /\ pc' = "aborted"
    /\ UNCHANGED << ip_source, ip_dests >>

SelectTargets ==
    /\ pc = "start"
    /\ \E rnd_ips \in get_random_ip_address(
              SampleCount(CappedCount(params.target_count, stats.ip_addr_count),
                          params.ip_dst)) :
         LET src == params.ip_src
             dests == RemoveSource(UserList(params.ip_dst) \o rnd_ips, src)
             hosting == HostingList(params.hosting_ip, dests,
                            HostingCount(Len(dests), params.hosting_pct,
                                         params.hosting_ip))
             mac == params.mac_dst
         IN  /\ params' = [params EXCEPT
                             !.ip_dst = [isList |-> TRUE, ips |-> dests],
                             !.hosting_ip = [isList |-> TRUE, ips |-> hosting]]
             /\ hosting_ip' = hosting
             /\ hist' = [hist EXCEPT !.sampled = Len(rnd_ips)]
             /\ \/ /\ ~VersionsValid(params.protocol_version,
                                     params.hosting_version)
                   /\ Abort
                \/ /\ VersionsValid(params.protocol_version,
                                    params.hosting_version)
                   /\ \E d \in (IF mac # NoMac THEN MacDests(mac)
                                ELSE Shuffles(dests)) :
                        \/ /\ mac # NoMac
                           /\ ip_src_dst_catch_equal(src, d)
                           /\ Abort
                        \/ /\ ~(mac # NoMac /\ ip_src_dst_catch_equal(src, d))
                           /\ \E order \in Shuffles(d) :
                                \E s \in SourceChoices(src, order,
                                                       params.ip_src_shuffle) :
                                    /\ ip_dests' = order
                                    /\ ip_source' = s
                                    /\ pc' = IF Len(order) = 0 THEN "done"
                                             ELSE "loop"
    /\ UNCHANGED << stats, idx, attacker_seq, victim_seq, min_delay,
                    timestamp_next_pkt, timestamp_prev, cursor, n_packets,
                    last_pkt, conns, attack_end_utime >>
    /\ UNCHANGED non_smb_vars

(***************************************************************************)
(* The loop over ip_dests, lines 225-440.                                  *)
(***************************************************************************)
CurIp == ip_dests[idx]

\* BaseAttack.add_packet: appends to self.packets
add_packet(p) ==
    /\ n_packets' = n_packets + 1
    /\ last_pkt' = p
    /\ conns' = IF p.flags = "S"
                THEN Append(conns, << [snd |-> p.snd, flags |-> p.flags] >>)
                ELSE [conns EXCEPT ![Len(conns)] =
                        Append(@, [snd |-> p.snd, flags |-> p.flags])]

\* history: what each side has sent before, and the largest timestamp
\* among the packets added
HistPkt(h, p) ==
    [h EXCEPT !.sent_a = @ + (IF p.snd = "a" THEN SeqSpace(p) ELSE 0),
              !.sent_v = @ + (IF p.snd = "v" THEN SeqSpace(p) ELSE 0),
              !.latest = Max(@, p.time)]

\* history: the last two values next_timestamp returned
HistRet(h, t) == [h EXCEPT !.prev_returned = h.returned, !.returned = t]

\* lines 256-263
SynPkt(isn) ==
    TcpPkt(ip_source, CurIp, "a", "S", isn, 0, timestamp_next_pkt)

\* lines 275-283
SynAckPkt ==
    TcpPkt(CurIp, ip_source, "v", "SA", victim_seq, attacker_seq, timestamp_prev)

\* lines 430-436
RstPkt ==
    TcpPkt(CurIp, ip_source, "v", "RA", 0, attacker_seq, timestamp_prev)

\* lines 289-294, 392-397, 421-426: an ACK of the attacker
AttackerAckPkt(t) ==
    TcpPkt(ip_source, CurIp, "a", "A", attacker_seq, victim_seq, t)

\* lines 338-343: the ACK of the target
VictimAckPkt(t) ==
    TcpPkt(CurIp, ip_source, "v", "A", victim_seq, attacker_seq, t)

\* lines 316-334
NegReqPkt(t) ==
    [ TcpPkt(ip_source, CurIp, "a", "PA", attacker_seq, victim_seq, t)
      EXCEPT !.payload = ReqLayers(ReqDialects(params.protocol_version)),
             !.dialects = ReqDialects(params.protocol_version) ]

\* lines 358-388
NegRspPkt(t) ==
    LET smb2 == UsesSMB2(params.protocol_version, params.hosting_version)
    IN  [ TcpPkt(CurIp, ip_source, "v", "PA", victim_seq, attacker_seq, t)
          EXCEPT !.payload = RspLayers(smb2),
                 !.shape = IF smb2 THEN "smb2" ELSE "legacy" ]

\* a variant of lines 401-406 without the FIN flag
SrcFinAckPktNoFin(t) ==
    TcpPkt(ip_source, CurIp, "a", "A", attacker_seq, victim_seq, t)

\* lines 401-406
SrcFinAckPkt(t) ==
    TcpPkt(ip_source, CurIp, "a", "FA", attacker_seq, victim_seq, t)

\* a variant of lines 411-417 that does not acknowledge the attacker's FIN
DstFinAckPktStaleAck(t) ==
    TcpPkt(CurIp, ip_source, "v", "FA", victim_seq, attacker_seq - 1, t)

\* lines 411-417
DstFinAckPkt(t) ==
    TcpPkt(CurIp, ip_source, "v", "FA", victim_seq, attacker_seq, t)

\* a variant with the sign of the step slipped
FlagRetreat == 0 - 1

\* line 261, 281, 407, 416: SYN and FIN take one sequence number
FlagAdvance == 1

\* rnd.randint(1000, 50000): the two ends of the range
SeqStarts == {SEQ_LOW, SEQ_HIGH}

\* what no step of the loop changes
run_consts == << stats, params, ip_source, ip_dests, hosting_ip,
                 attack_end_utime >>

\* a variant that pins the cursor to the SYN's timestamp every time
PinToSynTimestamp == timestamp_next_pkt

\* the argument of set_timestamp before each packet after the SYN-ACK: the
\* previous packet's timestamp, lines 292, 332, 341, 351, 395, 404, 414, 424
PinTimestamp == timestamp_prev

\* a variant that asks for half the pair's latency
ReplyDelayHalved == min_delay \div 2

\* the argument of next_timestamp for each packet after the SYN-ACK: the
\* pair's min_delay, lines 293, 333, 342, 352, 396, 405, 415, 425
ReplyDelay == min_delay

\* a step that pins the cursor to the previous packet's timestamp, asks for
\* the next one and adds packet mk(t) with it:
\* set_timestamp(timestamp_x); timestamp_y = next_timestamp(min_delay)
TimedStep(mk(_)) ==
    \E t \in next_timestamp(PinTimestamp, ReplyDelay) :
        /\ add_packet(mk(t))
        /\ hist' = HistRet(HistPkt(hist, mk(t)), t)
        /\ timestamp_prev' = t
        /\ cursor' = t

\* line 227, the guard fails: nothing is sent to the source itself
SkipTarget ==
    /\ pc = "loop"
    /\ CurIp = ip_source
    /\ conns' = Append(conns, << >>)
    /\ pc' = "iter_end"
    /\ UNCHANGED << run_consts, idx, attacker_seq, victim_seq, min_delay,
                    timestamp_next_pkt, timestamp_prev, cursor, n_packets,
                    last_pkt, hist >>
    /\ UNCHANGED non_smb_vars

\* lines 246-269: new sequence numbers, the SYN, the reply's timestamp
SendSyn ==
    /\ pc = "loop"
    /\ CurIp # ip_source
    /\ \E isn_a \in SeqStarts, isn_v \in SeqStarts :
       \E t \in next_timestamp(cursor, get_reply_latency(ip_source, CurIp)) :
          /\ add_packet(SynPkt(isn_a))
          /\ attacker_seq' = isn_a + FlagAdvance
          /\ victim_seq' = isn_v
          /\ hist' = HistRet([HistPkt(hist, SynPkt(isn_a)) EXCEPT
                                !.isn_a = isn_a, !.isn_v = isn_v,
                                !.sent_a = SeqSpace(SynPkt(isn_a)),
                                !.sent_v = 0], t)
          /\ timestamp_prev' = t
          /\ cursor' = t
    /\ min_delay' = get_reply_latency(ip_source, CurIp)
    /\ pc' = "syn_sent"
    /\ UNCHANGED << run_consts, idx, timestamp_next_pkt >>
    /\ UNCHANGED non_smb_vars

\* lines 271-284
SendSynAck ==
    /\ pc = "syn_sent"
    /\ CurIp \in Range(hosting_ip)
    /\ add_packet(SynAckPkt)
    /\ hist' = HistPkt(hist, SynAckPkt)
    /\ victim_seq' = victim_seq + FlagAdvance
    /\ pc' = "syn_ack"
    /\ UNCHANGED << run_consts, idx, attacker_seq, min_delay,
                    timestamp_next_pkt, timestamp_prev, cursor >>
    /\ UNCHANGED non_smb_vars

\* lines 429-437
SendRst ==
    /\ pc = "syn_sent"
    /\ CurIp \notin Range(hosting_ip)
    /\ add_packet(RstPkt)
    /\ hist' = HistPkt(hist, RstPkt)
    /\ pc' = "iter_end"
    /\ UNCHANGED << run_consts, idx, attacker_seq, victim_seq, min_delay,
                    timestamp_next_pkt, timestamp_prev, cursor >>
    /\ UNCHANGED non_smb_vars

\* lines 286-295
SendConfirm ==
    /\ pc = "syn_ack"
    /\ TimedStep(AttackerAckPkt)
    /\ pc' = "established"
    /\ UNCHANGED << run_consts, idx, attacker_seq, victim_seq, min_delay,
                    timestamp_next_pkt >>
    /\ UNCHANGED non_smb_vars

\* lines 297-335
SendNegReq ==
    /\ pc = "established"
    /\ TimedStep(NegReqPkt)
    /\ attacker_seq' =
         attacker_seq + ReqSeqAdvance(ReqDialects(params.protocol_version))
    /\ pc' = "req_sent"
    /\ UNCHANGED << run_consts, idx, victim_seq, min_delay,
                    timestamp_next_pkt >>
    /\ UNCHANGED non_smb_vars

\* lines 337-344
SendReqAck ==
    /\ pc = "req_sent"
    /\ TimedStep(VictimAckPkt)
    /\ pc' = "req_acked"
    /\ UNCHANGED << run_consts, idx, attacker_seq, victim_seq, min_delay,
                    timestamp_next_pkt >>
    /\ UNCHANGED non_smb_vars

\* lines 346-389
SendNegRsp ==
    /\ pc = "req_acked"
    /\ TimedStep(NegRspPkt)
    /\ victim_seq' =
         victim_seq + RspSeqAdvance(UsesSMB2(params.protocol_version,
                                             params.hosting_version))
    /\ pc' = "rsp_sent"
    /\ UNCHANGED << run_consts, idx, attacker_seq, min_delay,
                    timestamp_next_pkt >>
    /\ UNCHANGED non_smb_vars

\* lines 391-398
SendRspAck ==
    /\ pc = "rsp_sent"
    /\ TimedStep(AttackerAckPkt)
    /\ pc' = "rsp_acked"
    /\ UNCHANGED << run_consts, idx, attacker_seq, victim_seq, min_delay,
                    timestamp_next_pkt >>
    /\ UNCHANGED non_smb_vars

\* lines 400-408
SendSrcFinAck ==
    /\ pc = "rsp_acked"
    /\ TimedStep(SrcFinAckPkt)
    /\ attacker_seq' = attacker_seq + FlagAdvance
    /\ pc' = "fin_sent"
    /\ UNCHANGED << run_consts, idx, victim_seq, min_delay,
                    timestamp_next_pkt >>
    /\ UNCHANGED non_smb_vars

\* lines 410-418
SendDstFinAck ==
    /\ pc = "fin_sent"
    /\ TimedStep(DstFinAckPkt)
    /\ victim_seq' = victim_seq + FlagAdvance
    /\ pc' = "fin_acked"
    /\ UNCHANGED << run_consts, idx, attacker_seq, min_delay,
                    timestamp_next_pkt >>
    /\ UNCHANGED non_smb_vars

\* lines 420-427
SendFinalAck ==
    /\ pc = "fin_acked"
    /\ TimedStep(AttackerAckPkt)
    /\ pc' = "iter_end"
    /\ UNCHANGED << run_consts, idx, attacker_seq, victim_seq, min_delay,
                    timestamp_next_pkt >>
    /\ UNCHANGED non_smb_vars

\* lines 439-440 and the loop's step to the next target
EndIteration ==
    /\ pc = "iter_end"
    /\ \E t \in next_timestamp(timestamp_next_pkt, 0) :
        /\ timestamp_next_pkt' = t
        /\ cursor' = t
        /\ hist' = HistRet(hist, t)
    /\ idx' = idx + 1
    /\ pc' = IF idx + 1 > Len(ip_dests) THEN "done" ELSE "loop"
    /\ UNCHANGED << run_consts, attacker_seq, victim_seq, min_delay,
                    timestamp_prev, n_packets, last_pkt, conns >>
    /\ UNCHANGED non_smb_vars

\* generate_attack_pcap, lines 442-455: the end time is read from the
\* packet added last (IndexError when there is none), then the packets are
\* written sorted by time
generate_attack_pcap ==
    /\ pc = "done"
    /\ IF n_packets = 0
       THEN /\ pc' = "index_error"
            /\ UNCHANGED attack_end_utime
       ELSE /\ attack_end_utime' = last_pkt.time
            /\ pc' = "written"
    /\ UNCHANGED << stats, params, ip_source, ip_dests, hosting_ip, idx,
                    attacker_seq, victim_seq, min_delay, timestamp_next_pkt,
                    timestamp_prev, cursor, n_packets, last_pkt, conns, hist >>
    /\ UNCHANGED non_smb_vars

Next ==
    \/ SelectTargets
    \/ SkipTarget
    \/ SendSyn
    \/ SendSynAck
    \/ SendRst
    \/ SendConfirm
    \/ SendNegReq
    \/ SendReqAck
    \/ SendNegRsp
    \/ SendRspAck
    \/ SendSrcFinAck
    \/ SendDstFinAck
    \/ SendFinalAck
    \/ EndIteration
    \/ generate_attack_pcap

Spec == Init /\ [][Next]_vars

(***************************************************************************)
(* Properties of generate_attack_packets.                                  *)
(***************************************************************************)
IsPrefix(s, t) == Len(s) <= Len(t) /\ s = SubSeq(t, 1, Len(s))

Sent(snd, flags) == [snd |-> snd, flags |-> flags]

FullSeq ==
    << Sent("a", "S"), Sent("v", "SA"), Sent("a", "A"), Sent("a", "PA"),
       Sent("v", "A"), Sent("v", "PA"), Sent("a", "A"), Sent("a", "FA"),
       Sent("v", "FA"), Sent("a", "A") >>

RstSeq == << Sent("a", "S"), Sent("v", "RA") >>

Emits == n_packets' = n_packets + 1

\* C1: within one connection attacker_seq and victim_seq never decrease
\* from one emitted packet to the next, and after the SYN attacker_seq is
\* not below the sequence number the SYN carried.
C1_SeqNonDecreasing ==
    [][ /\ pc \notin {"start", "loop"} =>
              /\ attacker_seq' >= attacker_seq
              /\ victim_seq' >= victim_seq
        /\ (pc = "loop" /\ Emits) => attacker_seq' >= last_pkt'.seq ]_vars

C1_Witness ==
    /\ pc = "iter_end"
    /\ conns[Len(conns)] = FullSeq
    /\ attacker_seq > hist.isn_a + 2
    /\ victim_seq > hist.isn_v + 2

\* C2: the negotiation request advances attacker_seq by the octets of TCP
\* payload it carries (NetBIOS header, request header, one tail per dialect)
\* and leaves victim_seq alone; the negotiation response advances victim_seq
\* by the octets it carries (NetBIOS header, response header, and the SMB2
\* negotiate body in the SMB2 shape) and leaves attacker_seq alone; a pure
\* ACK carries no payload and changes neither counter.
C2_AdvanceByWireLength ==
    [][ Emits =>
          LET p == last_pkt'
          IN  /\ (p.flags = "PA" /\ p.snd = "a") =>
                    /\ attacker_seq' = attacker_seq + WireLen(p)
                    /\ victim_seq' = victim_seq
                    /\ Len(p.payload) = 2 + Len(p.dialects)
                    /\ WireLen(p) > NBT_LEN + REQ_HEAD_LEN
              /\ (p.flags = "PA" /\ p.snd = "v") =>
                    /\ victim_seq' = victim_seq + WireLen(p)
                    /\ attacker_seq' = attacker_seq
                    /\ Len(p.payload) = IF p.shape = "smb2" THEN 3 ELSE 2
              /\ p.flags = "A" =>
                    /\ WireLen(p) = 0
                    /\ attacker_seq' = attacker_seq
                    /\ victim_seq' = victim_seq ]_vars

C2_Witness ==
    /\ pc = "rsp_acked"
    /\ last_pkt.flags = "A"
    /\ params.protocol_version = "2.1"
    /\ params.hosting_version = "2.1"
    /\ victim_seq = hist.isn_v + 1 + NBT_LEN + SMB2_HEAD_LEN + RspBodyLen

\* what the sender of p had sent before p, and what its peer has sent
IsnOf(snd) == IF snd = "a" THEN hist.isn_a ELSE hist.isn_v
SentBy(snd) == IF snd = "a" THEN hist.sent_a ELSE hist.sent_v
PeerOf(snd) == IF snd = "a" THEN "v" ELSE "a"
SeqFieldOk(p) == p.seq = IsnOf(p.snd) + SentBy(p.snd) - SeqSpace(p)
AckFieldOk(p) == p.ack = IsnOf(PeerOf(p.snd)) + SentBy(PeerOf(p.snd))
AckFlagged(p) == p.flags \in {"SA", "A", "PA", "FA", "RA"}

\* C3 as stated: in every ACK-flagged packet seq is the sender's initial
\* sequence number plus what the sender sent before, and ack is the peer's
\* initial sequence number plus what the peer sent before.
C3_Original ==
    (n_packets > 0 /\ AckFlagged(last_pkt)) =>
        SeqFieldOk(last_pkt) /\ AckFieldOk(last_pkt)

\* C3 amended: the same for every ACK-flagged packet but the RST-ACK of a
\* non-hosting target, which carries seq 0 instead of the sequence number
\* drawn for the target, and acknowledges the attacker's ISN + 1.
C3_SeqAckConsistent ==
    (n_packets > 0 /\ AckFlagged(last_pkt)) =>
        /\ AckFieldOk(last_pkt)
        /\ last_pkt.flags # "RA" => SeqFieldOk(last_pkt)
        /\ last_pkt.flags = "RA" =>
              last_pkt.seq = 0 /\ last_pkt.ack = hist.isn_a + 1
        /\ last_pkt.flags = "SA" => last_pkt.ack = hist.isn_a + 1

C3_Witness ==
    /\ last_pkt.flags = "FA"
    /\ last_pkt.snd = "v"
    /\ last_pkt.ack = hist.isn_a + hist.sent_a
    /\ hist.sent_a > 2

\* C4: a hosting target gets exactly SYN, SYN-ACK, ACK, request, ACK,
\* response, ACK, FIN-ACK, FIN-ACK, ACK, with these senders and in this
\* order; any other target gets exactly SYN and one RST-ACK; nothing else is
\* added to the packet list.
C4_PacketOrder ==
    /\ Len(conns) <= Len(ip_dests)
    /\ n_packets = SumSeq([i \in 1..Len(conns) |-> Len(conns[i])])
    /\ \A i \in 1..Len(conns) :
         LET closed == i < Len(conns) \/ pc \in {"iter_end", "loop", "done"}
             shape == IF ip_dests[i] = ip_source THEN << >>
                      ELSE IF ip_dests[i] \in Range(hosting_ip) THEN FullSeq
                      ELSE RstSeq
         IN  /\ IsPrefix(conns[i], shape)
             /\ closed => conns[i] = shape

C4_Witness ==
    /\ pc = "done"
    /\ \E i, j \in 1..Len(conns) : conns[i] = FullSeq /\ conns[j] = RstSeq

FullCount == Cardinality({i \in 1..Len(conns) : Len(conns[i]) >= 9})
RstCount == Cardinality({i \in 1..Len(conns) : conns[i] = RstSeq})

\* C5: with no user-supplied destination, hosting or MAC address and a
\* capture of more than target.count addresses, a finished run has
\* floor(target.count * hosting.percentage) full connections and
\* target.count minus that many connections answered by one RST.
C5_Claim ==
    ( /\ pc = "done"
      /\ hist.user_dst = DefaultIp
      /\ hist.user_host = DefaultIp
      /\ params.mac_dst = NoMac
      /\ stats.ip_addr_count > params.target_count ) =>
        /\ FullCount = (params.target_count * params.hosting_pct) \div 100
        /\ RstCount = params.target_count
                        - (params.target_count * params.hosting_pct) \div 100

\* C6 as stated: every packet added has a timestamp not smaller than the
\* packet added before it, and the controller never returns less than it
\* returned before.
C6_Original ==
    [][ /\ (Emits /\ n_packets > 0) => last_pkt'.time >= last_pkt.time
        /\ hist'.returned >= hist.returned ]_vars

\* C6 amended: within one connection the packets' timestamps are
\* non-decreasing in emission order and so are the controller's returns;
\* the SYN timestamps of successive targets are non-decreasing.  (At the end
\* of an iteration the cursor is pinned back to the SYN's timestamp.)
C6_PerConnectionNonDecreasing ==
    [][ /\ (Emits /\ last_pkt'.flags # "S") => last_pkt'.time >= last_pkt.time
        /\ pc # "iter_end" => hist'.returned >= hist.returned
        /\ timestamp_next_pkt' >= timestamp_next_pkt
        /\ (Emits /\ last_pkt'.flags = "S") =>
              last_pkt'.time = timestamp_next_pkt ]_vars

C6_Witness ==
    /\ pc = "loop"
    /\ idx = 2
    /\ conns[1] = FullSeq
    /\ timestamp_next_pkt < last_pkt.time

\* C29: within one connection every packet after the SYN carries a
\* timestamp that lies at least min_delay after the timestamp of the packet
\* emitted immediately before it; whenever the cursor is pinned for a
\* packet, the value it is pinned to is that predecessor's timestamp, and
\* when the SYN is emitted the cursor stands at the SYN's timestamp; so
\* with min_delay >= 0 no packet is earlier than its predecessor in the
\* connection.
C29_PinnedToPredecessor ==
    [][ /\ (Emits /\ last_pkt'.flags # "S") =>
              /\ last_pkt'.time - last_pkt.time >= min_delay
              /\ pc # "syn_sent" => PinTimestamp = last_pkt.time
              /\ min_delay >= 0 => last_pkt'.time >= last_pkt.time
        /\ (Emits /\ last_pkt'.flags = "S") => cursor = last_pkt'.time ]_vars

\* a full connection with a latency of one: its last packet is at least
\* nine delays after the SYN
C29_Witness ==
    /\ pc = "iter_end"
    /\ conns[Len(conns)] = FullSeq
    /\ min_delay = 1
    /\ last_pkt.flags = "A"
    /\ last_pkt.time >= timestamp_next_pkt + 9

\* C37: the end time generate_attack_pcap records is the largest timestamp
\* among the packets of the attack, the time of the last packet of the
\* sorted capture.
C37_Claim == pc = "written" => attack_end_utime = hist.latest

\* C38: when the user supplies at least floor(|destinations| *
\* hosting.percentage) hosting addresses, the hosting list is the user's
\* addresses and nothing else; with hosting.percentage = 0 and no user
\* hosting address it is empty.
C38_Claim ==
    (pc \notin {"start", "idle"}
       /\ Len(UserList(hist.user_host))
            >= (Len(params.ip_dst.ips) * params.hosting_pct) \div 100) =>
        hosting_ip = UserList(hist.user_host)

\* C39: after target selection the destination list stored at line 151
\* has at most target.count entries, also with user-supplied destinations.
C39_Claim ==
    pc \notin {"start", "idle"} =>
        Len(params.ip_dst.ips) <= params.target_count

\* C7: with an unsupported protocol.version or hosting.version the run
\* ends before any packet is added.
C7_NoPacketOnInvalidVersion ==
    ( \/ params.protocol_version \notin smb_versions
      \/ params.hosting_version \notin smb_versions ) =>
        /\ n_packets = 0
        /\ conns = << >>
        /\ pc \in {"start", "aborted"}

C7_Witness ==
    /\ pc = "aborted"
    /\ params.protocol_version \in smb_versions
    /\ params.hosting_version \notin smb_versions
    /\ n_packets = 0

\* C8: the request carries the first six dialects exactly when
\* protocol.version is "1" and all dialects otherwise; the response has the
\* SMB2 shape exactly when neither version is "1", the legacy shape otherwise.
C8_ShapeByVersion ==
    /\ (last_pkt.flags = "PA" /\ last_pkt.snd = "a") =>
          /\ params.protocol_version = "1" <=>
                last_pkt.dialects = SubSeq(smb_dialects, 1, 6)
          /\ params.protocol_version # "1" <=>
                last_pkt.dialects = smb_dialects
          /\ Len(last_pkt.payload) = 2 + Len(last_pkt.dialects)
    /\ (last_pkt.flags = "PA" /\ last_pkt.snd = "v") =>
          /\ last_pkt.shape = "smb2" <=>
                (params.protocol_version # "1" /\ params.hosting_version # "1")
          /\ last_pkt.shape \in {"smb2", "legacy"}
          /\ Len(last_pkt.payload) = IF last_pkt.shape = "smb2" THEN 3 ELSE 2

C8_Witness ==
    /\ last_pkt.flags = "PA"
    /\ last_pkt.snd = "v"
    /\ last_pkt.shape = "legacy"
    /\ params.protocol_version = "2.1"
    /\ params.hosting_version = "1"

C10_Claim ==
    pc # "start" =>
        /\ ip_source \notin Range(params.ip_dst.ips)
        /\ n_packets > 0 => last_pkt.src # last_pkt.dst

\* C11: the hosting addresses used by the loop are all among the
\* destinations it iterates over, also with user-supplied hosting addresses
\* or a destination MAC address.
C11_Claim ==
    pc \notin {"start", "aborted"} => Range(hosting_ip) \subseteq Range(ip_dests)

(***************************************************************************)
(* Part 2: SMBScanAttack.init_param, lines 62-111, and the parameter store. *)
(* A stored value is a record: None, one value, or a list.  Addresses,      *)
(* ports, versions and platforms are numbers; 'False' and 'True' are 0 and *)
(* 1; hosting.percentage is in percent.                                    *)
(***************************************************************************)
None == [set |-> FALSE, list |-> FALSE, v |-> << >>]
One(x) == [set |-> TRUE, list |-> FALSE, v |-> << x >>]
ListOf(l) == [set |-> TRUE, list |-> TRUE, v |-> l]

IP_SOURCE == "ip.src"
MAC_SOURCE == "mac.src"
IP_DESTINATION == "ip.dst"
MAC_DESTINATION == "mac.dst"
PORT_SOURCE == "port.src"
TARGET_COUNT == "target.count"
HOSTING_PERCENTAGE == "hosting.percentage"
HOSTING_IP == "hosting.ip"
HOSTING_VERSION == "hosting.version"
SOURCE_PLATFORM == "src.platform"
PROTOCOL_VERSION == "protocol.version"
IP_SOURCE_RANDOMIZE == "ip.src.shuffle"
PORT_SOURCE_RANDOMIZE == "port.src.shuffle"
PACKETS_PER_SECOND == "packets.per-second"
INJECT_AFTER_PACKET == "inject.after-pkt"
INJECT_AT_TIMESTAMP == "inject.at-timestamp"

\* the parameters of the attack, in the order they are resolved: a MAC
\* address after its IP address
Keys ==
    << IP_SOURCE, IP_DESTINATION, MAC_SOURCE, MAC_DESTINATION, PORT_SOURCE,
       TARGET_COUNT, HOSTING_PERCENTAGE, HOSTING_IP, HOSTING_VERSION,
       SOURCE_PLATFORM, PROTOCOL_VERSION, IP_SOURCE_RANDOMIZE,
       PORT_SOURCE_RANDOMIZE, PACKETS_PER_SECOND, INJECT_AFTER_PACKET,
       INJECT_AT_TIMESTAMP >>

\* a name init_param has no branch for
UnknownParam == "no.such.param"

\* the random generator: its next state, and the draws made from a state
NextRng(r) == (r + 1) % RngStates
randint(lo, hi, r) == lo + (r % (hi - lo + 1))
PORT_LOW == 1024
PORT_HIGH == 65535
NumPlatforms == 3
\* Util.get_rnd_os(): one of Util.platforms
get_rnd_os(r) == 1 + (r % NumPlatforms)
\* SMBLib.get_smb_version(platform): the version the platform speaks
get_smb_version(platform) == platform

\* the statistics snapshot
get_most_used_ip_address == 1
get_most_used_pps == 10
get_packet_count == 2
get_intermediate_timestamp == 5
DEFAULT_TARGET_COUNT == 200
DEFAULT_HOSTING_PCT == 50

\* BaseAttack.get_param_value
get_param_value(store, param) == store[param]

\* BaseAttack.get_mac_address(ip): the MAC address the capture has for it,
\* the empty result for an address outside the capture
get_mac_address(ip) ==
    IF ip.v # << >> /\ ip.v[1] \in CaptureAddrs THEN One(MacOf(ip.v[1]))
    ELSE One(NoMac)

\* a variant of lines 76-79 and 85-88 without the test for None
MacDefaultUnguarded(ip) == get_mac_address(ip)

\* lines 76-79 and 85-88: no MAC address while the IP address is not set
MacDefault(ip) == IF ip = None THEN None ELSE get_mac_address(ip)

\* lines 70-108: the value init_param computes; None when it returns False
\* before line 109
InitValue(store, param, r, os) ==
    CASE param = IP_SOURCE -> One(get_most_used_ip_address)
      [] param = IP_SOURCE_RANDOMIZE -> One(0)
      [] param = MAC_SOURCE -> MacDefault(get_param_value(store, IP_SOURCE))
      [] param = TARGET_COUNT -> One(DEFAULT_TARGET_COUNT)
      [] param = IP_DESTINATION -> One(Placeholder)
      [] param = MAC_DESTINATION ->
            MacDefault(get_param_value(store, IP_DESTINATION))
      [] param = PORT_SOURCE -> One(randint(PORT_LOW, PORT_HIGH, r))
      [] param = PORT_SOURCE_RANDOMIZE -> One(1)
      [] param = PACKETS_PER_SECOND -> One(get_most_used_pps)
      [] param = INJECT_AFTER_PACKET -> One(randint(0, get_packet_count, r))
      [] param = INJECT_AT_TIMESTAMP -> One(get_intermediate_timestamp)
      [] param = HOSTING_PERCENTAGE -> One(DEFAULT_HOSTING_PCT)
      [] param = HOSTING_IP -> One(Placeholder)
      [] param = HOSTING_VERSION -> One(get_smb_version(os))
      [] param = SOURCE_PLATFORM -> One(get_rnd_os(r))
      [] param = PROTOCOL_VERSION -> One(1)
      [] OTHER -> None

\* the branches of init_param that draw from the random generator
Draws(param) == param \in {PORT_SOURCE, INJECT_AFTER_PACKET, SOURCE_PLATFORM}

\* BaseAttack.add_param_value: stores a valid value under a declared key
add_param_value(store, param, value) ==
    IF param \in DOMAIN store THEN [store EXCEPT ![param] = value] ELSE store

\* lines 109-111: the store init_param leaves, and what it returns
StoreAfterInit(store, param, r, os) ==
    IF InitValue(store, param, r, os) = None THEN store
    ELSE add_param_value(store, param, InitValue(store, param, r, os))

ReturnOfInit(store, param, r, os) == InitValue(store, param, r, os) # None

RngAfterInit(param, r) == IF Draws(param) THEN NextRng(r) ELSE r

KeySet == Range(Keys)

\* the explicit inputs a run can have
UserChoices(k) ==
    CASE k = IP_SOURCE -> {None, One(2)}
      [] k = IP_DESTINATION -> {None, One(3)}
      [] k = PORT_SOURCE -> {None, One(80)}
      [] OTHER -> {None}

Inputs ==
    { [k \in KeySet |->
          CASE k = IP_SOURCE -> a
            [] k = IP_DESTINATION -> b
            [] k = PORT_SOURCE -> c
            [] OTHER -> None] :
        a \in UserChoices(IP_SOURCE), b \in UserChoices(IP_DESTINATION),
        c \in UserChoices(PORT_SOURCE) }

\* BaseAttack.init_params: init_param for every key that has no value yet,
\* in the order of Keys; the store and the generator state it leaves
RECURSIVE ResolveFrom(_, _, _, _)
ResolveFrom(i, store, r, os) ==
    IF i > Len(Keys) THEN [store |-> store, rng |-> r]
    ELSE IF store[Keys[i]] # None THEN ResolveFrom(i + 1, store, r, os)
    ELSE ResolveFrom(i + 1, StoreAfterInit(store, Keys[i], r, os),
                     RngAfterInit(Keys[i], r), os)

\* a new attack instance with the run's explicit inputs: __init__ draws
\* host_os (line 43), the explicit inputs are stored
InitParam ==
    \E u \in Inputs, r0 \in 0..(RngStates - 1), mode \in {"calls", "fresh"} :
        /\ user_params = u
        /\ attack_params = u
        /\ host_os = get_rnd_os(r0)
        /\ rng = NextRng(r0)
        /\ ret = FALSE
        /\ asked = ""
        /\ ppc = mode
        /\ first_resolved = << >>
        /\ SmbIdle
        /\ CtlIdle
        /\ CommIdle

\* the names init_param is called for out of order
CallKeys ==
    {IP_SOURCE, MAC_SOURCE, IP_DESTINATION, MAC_DESTINATION, PORT_SOURCE,
     HOSTING_VERSION, UnknownParam}

\* one call of init_param, for any of these names, in any order
CallInitParam ==
    /\ ppc = "calls"
    /\ \E param \in CallKeys :
        /\ attack_params' = StoreAfterInit(attack_params, param, rng, host_os)
        /\ ret' = ReturnOfInit(attack_params, param, rng, host_os)
        /\ rng' = RngAfterInit(param, rng)
        /\ asked' = param
    /\ UNCHANGED << user_params, host_os, ppc, first_resolved, vars, cvars, ivars >>

\* parameter resolution of the instance
Resolve ==
    /\ ppc \in {"fresh", "generated"}
    /\ LET res == ResolveFrom(1, attack_params, rng, host_os)
       IN  /\ attack_params' = res.store
           /\ rng' = res.rng
           /\ first_resolved' =
                IF first_resolved = << >> THEN res.store ELSE first_resolved
    /\ ppc' = "resolved"
    /\ UNCHANGED << user_params, host_os, ret, asked, vars, cvars, ivars >>

\* a stored IPAddress value as generate_attack_packets reads it
AsIpParam(val) == [isList |-> val.list, ips |-> val.v]

\* what generate_attack_packets does to the store: add_param_value of the
\* destination list (line 151) and of the hosting list (line 168)
Generate ==
    /\ ppc = "resolved"
    /\ LET dst == AsIpParam(attack_params[IP_DESTINATION])
           host == AsIpParam(attack_params[HOSTING_IP])
           src == attack_params[IP_SOURCE].v[1]
       IN  \E rnd_ips \in get_random_ip_address(
                 SampleCount(CappedCount(attack_params[TARGET_COUNT].v[1],
                                         stats.ip_addr_count), dst)) :
             LET dests == RemoveSource(UserList(dst) \o rnd_ips, src)
                 hosting == HostingList(host, dests,
                               HostingCount(Len(dests),
                                   attack_params[HOSTING_PERCENTAGE].v[1], host))
             IN  attack_params' =
                    add_param_value(
                        add_param_value(attack_params, IP_DESTINATION,
                                        ListOf(dests)),
                        HOSTING_IP, ListOf(hosting))
    /\ rng' = NextRng(rng)
    /\ ppc' = "generated"
    /\ UNCHANGED << user_params, host_os, ret, asked, first_resolved, vars, cvars, ivars >>

\* the run is made again with the same explicit inputs and the same
\* snapshot: a new instance in the same process
NewInstance ==
    /\ ppc \in {"resolved", "generated"}
    /\ attack_params' = user_params
    /\ host_os' = get_rnd_os(rng)
    /\ rng' = NextRng(rng)
    /\ ppc' = "fresh"
    /\ UNCHANGED << user_params, ret, asked, first_resolved, vars, cvars, ivars >>

NextParam ==
    \/ CallInitParam
    \/ Resolve
    \/ Generate
    \/ NewInstance

SpecParam == InitParam /\ [][NextParam]_<< pvars, vars, cvars, ivars >>

\* C12: init_param for mac.src (mac.dst) returns False and stores nothing
\* while ip.src (ip.dst) has no value, and init_param for a name it does
\* not know returns False and stores nothing.
C12_FailsClosed ==
    [][ ppc = "calls" =>
          /\ (asked' = MAC_SOURCE /\ attack_params[IP_SOURCE] = None) =>
                ret' = FALSE /\ attack_params' = attack_params
          /\ (asked' = MAC_DESTINATION /\ attack_params[IP_DESTINATION] = None) =>
                ret' = FALSE /\ attack_params' = attack_params
          /\ asked' = UnknownParam =>
                ret' = FALSE /\ attack_params' = attack_params ]_pvars

C12_Witness ==
    /\ asked = MAC_DESTINATION
    /\ ret = FALSE
    /\ attack_params[IP_DESTINATION] = None
    /\ attack_params[MAC_DESTINATION] = None
    /\ attack_params[IP_SOURCE] # None

\* C13: a resolution made again with the same explicit inputs and the
\* same snapshot leaves the same value for every parameter as the first
\* one did, whatever resolution and generation ran in between.
C13_Claim ==
    (ppc = "resolved" /\ first_resolved # << >>) =>
        attack_params = first_resolved

(***************************************************************************)
(* Part 3: Controller.process_attacks, src/code/Core/Controller.py lines   *)
(* 66-171.  A file is named by a pair; its content is the list of the      *)
(* outputs of the attacks merged into it, in order.                        *)
(***************************************************************************)
NoPath == << "none", 0 >>
AttackPcap(k) == << "atk", k >>
MergedPcap(k) == << "mrg", k >>
ResultPcap == << "out", 0 >>
LabelFile == << "label", 0 >>

AddFile(f, id, c) ==
    [x \in (DOMAIN f) \cup {id} |-> IF x = id THEN c ELSE f[x]]
RemoveFile(f, id) == [x \in (DOMAIN f) \ {id} |-> f[x]]
Exists(f, id) == id \in DOMAIN f

\* AttackController.set_seed: the generator state the seed gives
set_seed(seed) == seed % RngStates

\* os.urandom(16): any value
urandom == 0..(RngStates - 1)

\* a variant of lines 83-86 that never uses the given seeds
SeedForAlwaysFresh(sds, i) == urandom

\* a variant of lines 83-86 with the bound off by one
SeedForOffByOne(sds, i) ==
    IF Len(sds) > i + 1 THEN {sds[i + 1][1]} ELSE urandom

\* lines 83-86: the seeds attack i (0-based) can get
SeedFor(sds, i) == IF Len(sds) > i THEN {sds[i + 1][1]} ELSE urandom

\* AttackController.process_attack: what the attack writes, made of the
\* draws of the instance (host_os of line 43 first) from generator state r
AttackOutput(r) ==
    << get_rnd_os(r), randint(PORT_LOW, PORT_HIGH, NextRng(r)) >>
RngAfterAttack(r) == NextRng(NextRng(r))
\* attack_controller.total_packets of an attack that yields packets
PacketsPerAttack == 10

NewLog ==
    [ calls |-> << >>, merges |-> 0, merge_failed |-> FALSE, run |-> 1,
      first_output |-> << >>, into_base |-> FALSE ]

Call(op, i, seed) == [op |-> op, i |-> i, seed |-> seed]

\* a new Controller (lines 22-31) and the arguments of process_attacks
CtlStart ==
    /\ cpc = "attacks"
    /\ atk_i = 0
    /\ merge_i = 0
    /\ written_pcaps = << >>
    /\ durations = << >>
    /\ added_packets = 0
    /\ attacks_pcap_path = NoPath
    /\ files = << >>
    /\ label_written = FALSE
    /\ reported_none = FALSE

\* the seeds argument: one-element lists for the first len attacks
SeedLists(len) ==
    {[k \in 1..len |-> << (base + k) % RngStates >>] : base \in {0, 1}}

InitCtl ==
    \E n \in 0..MaxAttacks :
    \E yields \in [1..n -> BOOLEAN], len \in 0..n, ie \in BOOLEAN :
    \E sds \in SeedLists(len) :
        /\ attacks_config = yields
        /\ seeds = sds
        /\ inject_empty = ie
        /\ CtlStart
        /\ clog = NewLog
        /\ rng = 0
        /\ host_os = 0
        /\ StoreIdle
        /\ SmbIdle
        /\ CommIdle

\* lines 82-94: one round of the loop over attacks_config
RunAttack ==
    /\ cpc = "attacks"
    /\ atk_i < Len(attacks_config)
    /\ \E rng_seed \in SeedFor(seeds, atk_i) :
         LET r == set_seed(rng_seed)
             yields == attacks_config[atk_i + 1]
             temp_attack_pcap == IF yields THEN AttackPcap(atk_i) ELSE NoPath
         IN  /\ rng' = RngAfterAttack(r)
             /\ host_os' = AttackOutput(r)[1]
             /\ files' = IF yields
                         THEN AddFile(files, temp_attack_pcap, << AttackOutput(r) >>)
                         ELSE files
             /\ durations' = Append(durations, atk_i)
             /\ added_packets' =
                  added_packets + (IF yields THEN PacketsPerAttack ELSE 0)
             /\ written_pcaps' = Append(written_pcaps, temp_attack_pcap)
             /\ clog' = [clog EXCEPT !.calls =
                           @ \o << Call("set_seed", atk_i, rng_seed),
                                   Call("process_attack", atk_i, rng_seed) >>]
    /\ atk_i' = atk_i + 1
    /\ UNCHANGED << attacks_config, seeds, inject_empty, cpc, merge_i,
                    attacks_pcap_path, label_written, reported_none,
                    store_vars, vars, ivars >>

\* lines 96-100 and 107-108: after the loop, is there anything to merge
EndAttacks ==
    /\ cpc = "attacks"
    /\ atk_i = Len(attacks_config)
    /\ IF Len(written_pcaps) > 1
       THEN /\ cpc' = "merging"
            /\ attacks_pcap_path' = NoPath
       ELSE /\ cpc' = "merged"
            /\ attacks_pcap_path' =
                 IF Len(written_pcaps) = 1 THEN written_pcaps[1] ELSE NoPath
    /\ merge_i' = 0
    /\ UNCHANGED << attacks_config, seeds, inject_empty, atk_i, written_pcaps,
                    durations, added_packets, files, label_written,
                    reported_none, clog, rng, host_os, store_vars, vars, ivars >>

\* where control is after a merge raised: the exception leaves
\* process_attacks, nothing after line 104 runs
AfterMergeFailureContinues == "merged"
AfterMergeFailure == "raised"

\* PcapFile.merge_attack creates a new artifact holding both operands'
\* packets; it cannot read an operand that is no file
CanMerge(f, a, b) == Exists(f, a) /\ Exists(f, b)
merge_attack(f, a, b) == f[a] \o f[b]

\* lines 102-106: one round of the pairwise merge loop
MergeStep ==
    /\ cpc = "merging"
    /\ merge_i < Len(written_pcaps) - 1
    /\ LET a == written_pcaps[merge_i + 1]
           b == written_pcaps[merge_i + 2]
           new == MergedPcap(merge_i)
       IN  \/ /\ CanMerge(files, a, b)
              /\ files' = RemoveFile(AddFile(files, new, merge_attack(files, a, b)), b)
              /\ written_pcaps' = [written_pcaps EXCEPT ![merge_i + 2] = new]
              /\ attacks_pcap_path' = new
              /\ merge_i' = merge_i + 1
              /\ cpc' = IF merge_i + 1 < Len(written_pcaps) - 1
                        THEN "merging" ELSE "merged"
              /\ clog' = [clog EXCEPT !.merges = @ + 1]
           \/ /\ cpc' = AfterMergeFailure
              /\ clog' = [clog EXCEPT !.merges = @ + 1, !.merge_failed = TRUE]
              /\ UNCHANGED << files, written_pcaps, attacks_pcap_path, merge_i >>
    /\ UNCHANGED << attacks_config, seeds, inject_empty, atk_i, durations,
                    added_packets, label_written, reported_none, rng, host_os,
                    store_vars, vars, ivars >>

\* lines 111-163: copy or merge into the background capture, rename to the
\* result path, remove the combined attack artifact, write the label file
FinishOutput ==
    /\ cpc = "merged"
    /\ attacks_pcap_path # NoPath
    /\ \/ /\ Exists(files, attacks_pcap_path)
          /\ files' = AddFile(AddFile(RemoveFile(files, attacks_pcap_path),
                                      ResultPcap, files[attacks_pcap_path]),
                              LabelFile, << >>)
          /\ label_written' = TRUE
          /\ clog' = [clog EXCEPT !.into_base = ~inject_empty]
          /\ cpc' = "done"
       \/ /\ ~inject_empty
          /\ cpc' = "raised"
          /\ UNCHANGED << files, label_written, clog >>
    /\ UNCHANGED << attacks_config, seeds, inject_empty, atk_i, merge_i,
                    written_pcaps, durations, added_packets, attacks_pcap_path,
                    reported_none, rng, host_os, store_vars, vars, ivars >>

\* lines 164-167: nothing to hand over
ReportNone ==
    /\ cpc = "merged"
    /\ attacks_pcap_path = NoPath
    /\ reported_none' = TRUE
    /\ cpc' = "done"
    /\ UNCHANGED << attacks_config, seeds, inject_empty, atk_i, merge_i,
                    written_pcaps, durations, added_packets, attacks_pcap_path,
                    files, label_written, clog, rng, host_os, store_vars, vars, ivars >>

\* the output capture of a finished run, << >> when there is none
OutputOf(f) == IF Exists(f, ResultPcap) THEN f[ResultPcap] ELSE << >>

\* the program is run once more with the same attack list, capture and
\* explicit seeds, one per attack: a new Controller, a generator in whatever
\* state it starts in
Rerun ==
    /\ cpc = "done"
    /\ clog.run = 1
    /\ Len(seeds) >= Len(attacks_config)
    /\ cpc' = "attacks"
    /\ atk_i' = 0
    /\ merge_i' = 0
    /\ written_pcaps' = << >>
    /\ durations' = << >>
    /\ added_packets' = 0
    /\ attacks_pcap_path' = NoPath
    /\ files' = << >>
    /\ label_written' = FALSE
    /\ reported_none' = FALSE
    /\ clog' = [NewLog EXCEPT !.run = 2, !.first_output = OutputOf(files)]
    /\ rng' \in 0..(RngStates - 1)
    /\ host_os' = 0
    /\ UNCHANGED << attacks_config, seeds, inject_empty, store_vars, vars, ivars >>

NextCtl ==
    \/ RunAttack
    \/ EndAttacks
    \/ MergeStep
    \/ FinishOutput
    \/ ReportNone
    \/ Rerun

SpecCtl == InitCtl /\ [][NextCtl]_<< cvars, pvars, vars, ivars >>

Seeded == Len(seeds) >= Len(attacks_config)

CallsOf(k) == SubSeq(clog.calls, 2 * k - 1, 2 * k)

\* C15: the attacks are handled one after another in the order of
\* attacks_config; for attack i set_seed is called before process_attack,
\* with seeds[i][0] when there is a seed for index i and an os.urandom value
\* otherwise; one duration and one artifact path are recorded per attack,
\* in input order.
C15_InOrderSeededOnce ==
    cpc \in {"attacks", "merging"} =>
        /\ Len(clog.calls) = 2 * atk_i
        /\ Len(durations) = atk_i
        /\ Len(written_pcaps) = atk_i
        /\ cpc = "merging" => atk_i = Len(attacks_config)
        /\ \A k \in 1..atk_i :
              /\ CallsOf(k)[1].op = "set_seed"
              /\ CallsOf(k)[2].op = "process_attack"
              /\ CallsOf(k)[1].i = k - 1
              /\ CallsOf(k)[2].i = k - 1
              /\ IF k <= Len(seeds)
                 THEN CallsOf(k)[1].seed = seeds[k][1]
                 ELSE CallsOf(k)[1].seed \in urandom
              /\ durations[k] = k - 1
              /\ (cpc = "attacks" \/ merge_i = 0) =>
                    written_pcaps[k] \in {AttackPcap(k - 1), NoPath}

C15_Witness ==
    /\ cpc = "merging"
    /\ merge_i = 0
    /\ atk_i = 3
    /\ Len(seeds) = 2
    /\ CallsOf(3)[1].seed # CallsOf(2)[1].seed
    /\ written_pcaps = << AttackPcap(0), NoPath, AttackPcap(2) >>

\* the attacks of the list that produce packets, and whether all have run
Producing == {k \in 1..Len(attacks_config) : attacks_config[k]}
AllRun == cpc # "attacks" \/ atk_i = Len(attacks_config)

\* what attack k (1-based) wrote in this run
OutputOfAttack(k) == AttackOutput(set_seed(CallsOf(k)[1].seed))

\* C16: the per-attack outputs are merged pairwise in input order into one
\* artifact; when exactly one attack produced output, also among several
\* configured attacks, no pairwise merge is attempted and the output of a
\* completed run is that attack's artifact alone.
C16_Claim ==
    /\ (cpc = "done" /\ Producing = 1..Len(attacks_config)) =>
          OutputOf(files) = [k \in 1..Len(attacks_config) |-> OutputOfAttack(k)]
    /\ (AllRun /\ Cardinality(Producing) = 1) =>
          /\ clog.merges = 0
          /\ cpc = "done" =>
                \A k \in Producing : OutputOf(files) = << OutputOfAttack(k) >>

\* C17: when a run with at least one attack completes with an output, no
\* per-attack artifact and no intermediate merged artifact is left: only
\* the output capture and its label file exist.
C17_Claim ==
    (cpc = "done" /\ Len(attacks_config) >= 1 /\ label_written) =>
        DOMAIN files = {ResultPcap, LabelFile}

\* C18: when no attack produced a packet, for any number of configured
\* attacks, no merge is attempted, no output capture and no label file is
\* written, the run does not raise, and when it has ended it has reported
\* that nothing was injected.
C18_Claim ==
    (AllRun /\ Producing = {}) =>
        /\ clog.merges = 0
        /\ cpc # "raised"
        /\ ~Exists(files, ResultPcap)
        /\ ~label_written
        /\ cpc = "done" => reported_none

\* C19: once a pairwise merge of attack artifacts has failed the run is
\* over: nothing is merged into the background capture, no output capture
\* is created or renamed and no label file is written.
C19_NoPartialOutput ==
    clog.merge_failed =>
        /\ cpc = "raised"
        /\ ~clog.into_base
        /\ ~Exists(files, ResultPcap)
        /\ ~Exists(files, LabelFile)
        /\ ~label_written

C19_Witness ==
    /\ clog.merge_failed
    /\ cpc = "raised"
    /\ Producing = 1..3
    /\ merge_i = 1
    /\ Exists(files, MergedPcap(0))
    /\ Exists(files, AttackPcap(2))
    /\ ~label_written

(***************************************************************************)
(* Part 4: CommunicationProcessor.get_comm_interval,                       *)
(* src/code/ID2TLib/Botnet/CommunicationProcessor.py lines 95-150.  The    *)
(* message log is the list of the messages' initiators; message k (from 0) *)
(* is sent at time k.                                                      *)
(***************************************************************************)
MAX_TRIES == 5

get_message_count(log) == Len(log)

\* random.randrange(0, n): raises ValueError on an empty range
RandrangeRaises(n) == n <= 0
randrange(n, r) == r % n

\* truth of a dict, and the test of lines 110, 117 and 142
Truthy(iv) == iv.kind = "dict"
Found(iv) == Truthy(iv) /\ iv.IDs # {}

\* the initiators of messages s..e (0-based, clipped to the log)
get_interval_init_ids(log, s, e) ==
    {log[k + 1] : k \in Max(s, 0)..Min(e, Len(log) - 1)}

\* expand forward from s until n initiators are seen, within t
find_interval_from_startidx(log, s, n, t) ==
    LET ends == {e \in s..Min(Len(log) - 1, s + t) :
                    Cardinality(get_interval_init_ids(log, s, e)) >= n}
        end == CHOOSE e \in ends : \A x \in ends : e <= x
    IN  IF ends = {} THEN EmptyInterval
        ELSE MkInterval(get_interval_init_ids(log, s, end), s, end)

\* expand backward from e until n initiators are seen, within t
find_interval_from_endidx(log, e, n, t) ==
    LET starts == {b \in Max(0, e - t)..Min(e, Len(log) - 1) :
                      Cardinality(get_interval_init_ids(log, b, e)) >= n}
        start == CHOOSE b \in starts : \A x \in starts : b >= x
    IN  IF starts = {} THEN EmptyInterval
        ELSE MkInterval(get_interval_init_ids(log, start, e), start, e)

\* the windows that satisfy the request, by start index
find_optimal_interval(log, n, t) ==
    SelectSeq([k \in 1..Len(log) |-> find_interval_from_startidx(log, k - 1, n, t)],
              LAMBDA iv : Truthy(iv))

Strategies == {"random", "optimal", "custom", "other"}
Logs == UNION {[1..k -> 1..MaxIds] : k \in 0..MaxMsgs}

\* a new CommunicationProcessor (lines 28-45) with its log parsed
InitComm ==
    \E log \in Logs, strat \in Strategies, n \in 1..(MaxIds + 1),
       t \in 1..MaxMsgs, r \in 0..(RngStates - 1) :
    \E si \in 0..MaxMsgs, ei \in 0..MaxMsgs :
        /\ strat # "custom" => (si = 0 /\ ei = 0)
        /\ msgs = log
        /\ strategy = strat
        /\ number_ids = n
        /\ max_int_time = t
        /\ start_idx = si
        /\ end_idx = ei
        /\ interval = IntervalNone
        /\ tries = 0
        /\ ipc = "select"
        /\ returned = IntervalNone
        /\ RolesIdle
        /\ StatsDbIdle
        /\ rng = r
        /\ host_os = 0
        /\ StoreIdle
        /\ SmbIdle
        /\ CtlIdle

\* a loop that goes on after an attempt with participants
LoopEndsAtBoundOnly(iv, done) == done = MAX_TRIES

\* lines 107-111 and 114-118: the loop ends with the break of the first
\* attempt that has participants, or after range(5)
LoopEnds(iv, done) == Found(iv) \/ done = MAX_TRIES

\* lines 142-143: what is returned for the interval the branches left
Normalise(iv) == IF ~Found(iv) THEN EmptyInterval ELSE iv

\* an index taken as it is given
UserIndexKept(i) == i

\* lines 127, 131, 135-136: message indices start with 1 for the user
UserIndex(i) == i - 1

\* lines 105-111: one round of the loop of strategy random
RandomAttempt ==
    /\ ipc = "select"
    /\ strategy = "random"
    /\ tries < MAX_TRIES
    /\ IF RandrangeRaises(get_message_count(msgs))
       THEN /\ ipc' = "raised"
            /\ UNCHANGED << interval, tries, rng >>
       ELSE LET start == randrange(get_message_count(msgs), rng)
                iv == find_interval_from_startidx(msgs, start, number_ids, max_int_time)
            IN  /\ interval' = iv
                /\ rng' = NextRng(rng)
                /\ tries' = tries + 1
                /\ ipc' = IF LoopEnds(iv, tries + 1) THEN "finish" ELSE "select"
    /\ UNCHANGED << msgs, strategy, number_ids, max_int_time, start_idx,
                    end_idx, returned, host_os, store_vars, vars, cvars, rvars >>

\* lines 112-118: strategy optimal, one round of its loop (or none)
OptimalAttempt ==
    /\ ipc = "select"
    /\ strategy = "optimal"
    /\ tries < MAX_TRIES
    /\ LET intervals == find_optimal_interval(msgs, number_ids, max_int_time)
       IN  IF intervals = << >>
           THEN /\ ipc' = "finish"
                /\ UNCHANGED << interval, tries, rng >>
           ELSE LET iv == intervals[randrange(Len(intervals), rng) + 1]
                IN  /\ interval' = iv
                    /\ rng' = NextRng(rng)
                    /\ tries' = tries + 1
                    /\ ipc' = IF LoopEnds(iv, tries + 1)
                              THEN "finish" ELSE "select"
    /\ UNCHANGED << msgs, strategy, number_ids, max_int_time, start_idx,
                    end_idx, returned, host_os, store_vars, vars, cvars, rvars >>

\* lines 119-140: strategy custom; an index that is None or 0 is not given
CustomSelect ==
    /\ ipc = "select"
    /\ strategy = "custom"
    /\ IF start_idx = 0 /\ end_idx = 0
       THEN IF RandrangeRaises(get_message_count(msgs))
            THEN /\ ipc' = "raised"
                 /\ UNCHANGED << interval, rng, start_idx, end_idx >>
            ELSE /\ interval' = find_interval_from_startidx(
                                   msgs, randrange(get_message_count(msgs), rng),
                                   number_ids, max_int_time)
                 /\ rng' = NextRng(rng)
                 /\ ipc' = "finish"
                 /\ UNCHANGED << start_idx, end_idx >>
       ELSE /\ ipc' = "finish"
            /\ rng' = rng
            /\ start_idx' = IF start_idx # 0 THEN UserIndex(start_idx) ELSE start_idx
            /\ end_idx' = IF end_idx # 0 THEN UserIndex(end_idx) ELSE end_idx
            /\ interval' =
                 IF start_idx = 0
                 THEN find_interval_from_endidx(msgs, end_idx', number_ids, max_int_time)
                 ELSE IF end_idx = 0
                 THEN find_interval_from_startidx(msgs, start_idx', number_ids, max_int_time)
                 ELSE LET ids == get_interval_init_ids(msgs, start_idx', end_idx')
                      IN  IF ids # {} THEN MkInterval(ids, start_idx', end_idx')
                          ELSE interval
    /\ UNCHANGED << msgs, strategy, number_ids, max_int_time, tries, returned,
                    host_os, store_vars, vars, cvars, rvars >>

\* a strategy none of lines 105, 112, 119 matches
OtherStrategy ==
    /\ ipc = "select"
    /\ strategy \notin {"random", "optimal", "custom"}
    /\ ipc' = "finish"
    /\ UNCHANGED << msgs, strategy, number_ids, max_int_time, start_idx,
                    end_idx, interval, tries, returned, pvars, vars, cvars, rvars >>

\* lines 142-150: normalise the result and return it
ReturnInterval ==
    /\ ipc = "finish"
    /\ interval' = Normalise(interval)
    /\ returned' = interval'
    /\ ipc' = "returned"
    /\ UNCHANGED << msgs, strategy, number_ids, max_int_time, start_idx,
                    end_idx, tries, pvars, vars, cvars, rvars >>

\* a loop that stops one element early
TruncationsOffByOne(ids, n) ==
    {S \in SUBSET ids : Cardinality(S) = Min(Cardinality(ids), n + 1)}

\* lines 261-263: the lists the loop can leave, as sets; elements are
\* deleted at drawn positions while there are more than number_ids
Truncations(ids, n) ==
    {S \in SUBSET ids : Cardinality(S) = Min(Cardinality(ids), n)}

\* the generator after k draws
NextRngTimes(r, k) == (r + k) % RngStates

\* lines 257-267: get_messages up to set_mapping.  mapped_ids is the list
\* object self.interval["IDs"] itself, so the deletions of line 263 are
\* made in the interval, which is also the dict get_comm_interval
\* returned; on the empty dict line 258 raises KeyError.  Line 269 starts
\* the role pass of Part 5 in the state this leaves.
get_messages ==
    /\ ipc = "returned"
    /\ IF ~Found(interval)
       THEN /\ ipc' = "key_error"
            /\ UNCHANGED << interval, returned, rng, local_init_ids, rpc >>
       ELSE \E mapped_ids \in Truncations(interval.IDs, number_ids) :
               /\ interval' = [interval EXCEPT !.IDs = mapped_ids]
               /\ returned' = interval'
               /\ rng' = NextRngTimes(rng, Cardinality(interval.IDs)
                                            - Cardinality(mapped_ids))
               /\ local_init_ids' = mapped_ids
               /\ rpc' = "roles"
               /\ ipc' = "mapped"
    /\ UNCHANGED << msgs, strategy, number_ids, max_int_time, start_idx,
                    end_idx, tries, host_os, store_vars, vars, cvars,
                    packets, nat, messages, msg_id, prev_reqs, req_seen,
                    respnd_ids, external_init_ids, local_ids, external_ids,
                    prob_rspnd_local, svars >>

NextComm ==
    \/ RandomAttempt
    \/ OptimalAttempt
    \/ CustomSelect
    \/ OtherStrategy
    \/ ReturnInterval
    \/ get_messages

SpecComm == InitComm /\ [][NextComm]_<< ivars, pvars, vars, cvars, rvars >>

\* C20: whenever no interval satisfying the request is found, for any
\* strategy and any message log (the empty log too), get_comm_interval
\* raises no exception and returns the empty interval {}.
C20_Claim ==
    /\ ipc # "raised"
    /\ (ipc = "returned" /\ ~Found(returned)) => returned = EmptyInterval

\* get_comm_interval is run to its end: nothing stops it between two steps
SpecCommFair == SpecComm /\ WF_<< ivars, pvars, vars, cvars, rvars >>(NextComm)

\* C21: with strategy random find_interval_from_startidx is called at most
\* 5 times, a further attempt is made only while no attempt has returned
\* participants, the interval of the attempt that did is the one returned,
\* and the loop terminates.
C21_RandomRetry ==
    /\ [](strategy = "random" => tries <= 5)
    /\ [][ strategy = "random" =>
             /\ tries' # tries => (tries' = tries + 1 /\ ~Found(interval))
             /\ (ipc' = "returned" /\ Found(interval)) => returned' = interval
             /\ (ipc' = "returned" /\ ~Found(interval)) => tries = 5 ]_ivars
    /\ <>(ipc \in {"returned", "raised"})

C21_Witness ==
    /\ strategy = "random"
    /\ ipc = "returned"
    /\ tries = 2
    /\ Found(returned)
    /\ Cardinality(returned.IDs) = 2

\* lines 107-111 run from attempt k with the generator in state r: the
\* interval the loop of strategy random leaves in self.interval
RECURSIVE RandomRun(_, _, _, _, _)
RandomRun(log, n, t, r, k) ==
    LET iv == find_interval_from_startidx(log, randrange(get_message_count(log), r), n, t)
    IN  IF LoopEnds(iv, k + 1) THEN iv
        ELSE RandomRun(log, n, t, NextRng(r), k + 1)

\* C22: with strategy custom and neither index given, get_comm_interval
\* leaves the interval strategy random leaves for the same log and the
\* same generator state (same draws, same retries, same result).
C22_Claim ==
    [][ ( /\ strategy = "custom"
          /\ start_idx = 0
          /\ end_idx = 0
          /\ ipc = "select"
          /\ ipc' = "finish" ) =>
            Normalise(interval') =
              Normalise(RandomRun(msgs, number_ids, max_int_time, rng, 0)) ]_ivars

\* the initiators of the messages the user counts as first..last
InitiatorsInUserRange(first, last) ==
    {msgs[k] : k \in (first..last) \cap (1..Len(msgs))}

C24_Claim ==
    (ipc = "returned" /\ Found(returned)) =>
        Cardinality(returned.IDs) >= number_ids

\* C33: after get_messages the selected participants are at most
\* number_ids, all of them IDs of the interval get_comm_interval returned,
\* and exactly number_ids when the interval held at least that many.
C33_SelectedWithinTarget ==
    [][ (ipc = "returned" /\ ipc' = "mapped") =>
          /\ local_init_ids' \subseteq returned.IDs
          /\ Cardinality(local_init_ids') <= number_ids
          /\ Cardinality(returned.IDs) >= number_ids =>
                Cardinality(local_init_ids') = number_ids
          /\ Cardinality(returned.IDs) < number_ids =>
                local_init_ids' = returned.IDs ]_ivars

\* an interval given by the user's indices held two initiators for a
\* target of one; one of them was selected
C33_Witness ==
    /\ ipc = "mapped"
    /\ strategy = "custom"
    /\ number_ids = 1
    /\ msgs = << 1, 2, 2 >>
    /\ start_idx = 0
    /\ end_idx = 1
    /\ Cardinality(local_init_ids) = 1

\* C34: once get_comm_interval has returned an interval, its participant
\* IDs, start index and end index are not modified by a later operation.
C34_Claim ==
    [][ (ipc \in {"returned", "mapped"} /\ Found(returned)) =>
          /\ returned'.IDs = returned.IDs
          /\ returned'.Start = returned.Start
          /\ returned'.End = returned.End ]_ivars

(***************************************************************************)
(* Part 5: CommunicationProcessor.det_id_roles_and_msgs and                *)
(* det_ext_and_local_ids, lines 152-247 and 271-298.  Peer IDs are         *)
(* numerals, so the key "{0}-{1}" of a pair is the pair itself.            *)
(***************************************************************************)
Peers == {1, 2, 3}
SALITY_HELLO == "HELLO"
SALITY_NL_REQUEST == "NL_REQUEST"
SALITY_HELLO_REPLY == "HELLO_REPLY"
SALITY_NL_REPLY == "NL_REPLY"
TIMEOUT == "TIMEOUT"
MsgTypes ==
    {SALITY_HELLO, SALITY_NL_REQUEST, SALITY_HELLO_REPLY, SALITY_NL_REPLY, TIMEOUT}

IsRequest(t) == t \in {SALITY_HELLO, SALITY_NL_REQUEST}
IsReply(t) == t \in {SALITY_HELLO_REPLY, SALITY_NL_REPLY}

\* who sends to whom in the log
Pairs == {<< 1, 2 >>, << 2, 1 >>, << 1, 3 >>, << 3, 1 >>, << 2, 3 >>}

\* the abstract packets of the log: Src, Dst, Type
PacketChoices ==
    {[Src |-> pr[1], Dst |-> pr[2], Type |-> t] : pr \in Pairs, t \in MsgTypes}

\* refer_msg_id of a message that refers to none (Message's default, and
\* the default of prev_reqs.get at line 216)
NoRef == 0 - 1

\* Message(msg_id, src, dst, type, time, refer_msg_id, line_no); sets
\* counts the assignments made to refer_msg_id
Message(id, src, dst, type, refer) ==
    [ id |-> id, src |-> src, dst |-> dst, type |-> type,
      refer_msg_id |-> refer, sets |-> IF refer = NoRef THEN 0 ELSE 1 ]

\* a request made to refer to itself
SetReferToSelf(ms, refer_idx, id) ==
    [ms EXCEPT ![refer_idx + 1].refer_msg_id = refer_idx, ![refer_idx + 1].sets = @ + 1]

\* lines 218 and 231: msgs[refer_idx].refer_msg_id = msg_id
SetRefer(ms, refer_idx, id) ==
    [ms EXCEPT ![refer_idx + 1].refer_msg_id = id, ![refer_idx + 1].sets = @ + 1]

\* a key that names the first peer only
KeySourceOnly(a, b) == << a, a >>

\* lines 196, 214, 227: msg_str
Key(a, b) == << a, b >>

\* lines 216 and 229: prev_reqs.get
Pending(prev, key) == IF key \in DOMAIN prev THEN prev[key] ELSE NoRef

\* a pending map that keeps the first request of a pair
RememberFirst(prev, key, id) ==
    [k \in (DOMAIN prev) \cup {key} |-> IF k \in DOMAIN prev THEN prev[k] ELSE id]

\* line 199: prev_reqs[msg_str] = msg_id
Remember(prev, key, id) ==
    [k \in (DOMAIN prev) \cup {key} |-> IF k = key THEN id ELSE prev[k]]

\* a pending entry that survives its match
ForgetNothing(prev, key) == prev

\* lines 219 and 238: del(prev_reqs[msg_str])
Forget(prev, key) == [k \in (DOMAIN prev) \ {key} |-> prev[k]]

\* line 180: neither end of the packet is a selected initiator
Unmapped(pkt) == pkt.Src \notin local_init_ids /\ pkt.Dst \notin local_init_ids

\* a variant of lines 188-194 that does not look at self.nat
RequestRoleIgnoringNat(pkt) ==
    IF pkt.Dst \in local_init_ids /\ pkt.Src \notin local_init_ids
    THEN "external"
    ELSE IF pkt.Src \notin local_init_ids THEN "drop" ELSE "responder"

\* lines 188-194: what a request does to the roles
RequestRole(pkt) ==
    IF ~nat /\ pkt.Dst \in local_init_ids /\ pkt.Src \notin local_init_ids
    THEN "external"
    ELSE IF pkt.Src \notin local_init_ids THEN "drop" ELSE "responder"

\* a variant that always synthesizes a hello reply
TimeoutReplyHello(req_type) == SALITY_HELLO_REPLY

\* lines 232-235: the type of the reply a timeout stands for
TimeoutReplyType(req_type) ==
    IF req_type = SALITY_NL_REQUEST THEN SALITY_NL_REPLY ELSE SALITY_HELLO_REPLY

\* lines 205-212: what a reply does to the roles
ReplyRole(pkt) ==
    IF ~nat /\ pkt.Src \in local_init_ids /\ pkt.Dst \notin local_init_ids
    THEN "external"
    ELSE IF pkt.Dst \notin local_init_ids THEN "drop" ELSE "responder"

\* set_mapping (lines 85-93) has stored the selected initiators; the loop of
\* line 176 is about to start
InitRoles ==
    \E n \in BOOLEAN, l \in {{1}, {1, 2}} :
        /\ packets = << >>
        /\ nat = n
        /\ local_init_ids = l
        /\ messages = << >>
        /\ msg_id = 0
        /\ prev_reqs = << >>
        /\ req_seen = FALSE
        /\ respnd_ids = {}
        /\ external_init_ids = {}
        /\ rpc = "roles"
        /\ local_ids = {}
        /\ external_ids = {}
        /\ prob_rspnd_local = 0
        /\ msgs = << >>
        /\ strategy = ""
        /\ number_ids = 0
        /\ max_int_time = 0
        /\ start_idx = 0
        /\ end_idx = 0
        /\ interval = IntervalNone
        /\ tries = 0
        /\ ipc = "idle"
        /\ returned = IntervalNone
        /\ StatsDbIdle
        /\ ParamIdle
        /\ SmbIdle
        /\ CtlIdle

\* what no step of the role pass touches
roles_frame == << nat, local_init_ids, rpc, local_ids, external_ids,
                  prob_rspnd_local, msgs, strategy, number_ids, max_int_time,
                  start_idx, end_idx, interval, tries, ipc, returned,
                  svars, pvars, vars, cvars >>

\* lines 180-181, 190-191, 208-209 and a packet no branch takes: the
\* packet is passed over
SkipPacket ==
    /\ rpc = "roles"
    /\ Len(packets) < MaxPackets
    /\ \E pkt \in PacketChoices :
         /\ \/ Unmapped(pkt)
            \/ IsRequest(pkt.Type) /\ RequestRole(pkt) = "drop"
            \/ IsReply(pkt.Type) /\ (~req_seen \/ ReplyRole(pkt) = "drop")
            \/ pkt.Type = TIMEOUT /\
                 (pkt.Src \notin local_init_ids \/ nat
                    \/ Pending(prev_reqs, Key(pkt.Dst, pkt.Src)) = NoRef)
         /\ packets' = Append(packets, pkt)
    /\ UNCHANGED << messages, msg_id, prev_reqs, req_seen, respnd_ids,
                    external_init_ids, roles_frame >>

\* lines 187-201: a request that is kept
ProcessRequest ==
    /\ rpc = "roles"
    /\ Len(packets) < MaxPackets
    /\ \E pkt \in PacketChoices :
         /\ ~Unmapped(pkt)
         /\ IsRequest(pkt.Type)
         /\ RequestRole(pkt) # "drop"
         /\ packets' = Append(packets, pkt)
         /\ external_init_ids' = IF RequestRole(pkt) = "external"
                                 THEN external_init_ids \cup {pkt.Src}
                                 ELSE external_init_ids
         /\ respnd_ids' = IF RequestRole(pkt) = "responder"
                          THEN respnd_ids \cup {pkt.Dst} ELSE respnd_ids
         /\ messages' = Append(messages,
                               Message(msg_id, pkt.Src, pkt.Dst, pkt.Type, NoRef))
         /\ prev_reqs' = Remember(prev_reqs, Key(pkt.Src, pkt.Dst), msg_id)
    /\ msg_id' = msg_id + 1
    /\ req_seen' = TRUE
    /\ UNCHANGED roles_frame

\* lines 204-223: a reply that is kept
ProcessReply ==
    /\ rpc = "roles"
    /\ Len(packets) < MaxPackets
    /\ req_seen
    /\ \E pkt \in PacketChoices :
         LET key == Key(pkt.Dst, pkt.Src)
             refer_idx == Pending(prev_reqs, key)
         IN  /\ ~Unmapped(pkt)
             /\ IsReply(pkt.Type)
             /\ ReplyRole(pkt) # "drop"
             /\ packets' = Append(packets, pkt)
             /\ external_init_ids' = IF ReplyRole(pkt) = "external"
                                     THEN external_init_ids \cup {pkt.Dst}
                                     ELSE external_init_ids
             /\ respnd_ids' = IF ReplyRole(pkt) = "responder"
                              THEN respnd_ids \cup {pkt.Src} ELSE respnd_ids
             /\ messages' =
                  Append(IF refer_idx # NoRef
                         THEN SetRefer(messages, refer_idx, msg_id) ELSE messages,
                         Message(msg_id, pkt.Src, pkt.Dst, pkt.Type, refer_idx))
             /\ prev_reqs' = IF refer_idx # NoRef
                             THEN Forget(prev_reqs, key) ELSE prev_reqs
    /\ msg_id' = msg_id + 1
    /\ UNCHANGED << req_seen, roles_frame >>

\* lines 225-239: a timeout that stands for the reply that never came
ProcessTimeout ==
    /\ rpc = "roles"
    /\ Len(packets) < MaxPackets
    /\ ~nat
    /\ \E pkt \in PacketChoices :
         LET key == Key(pkt.Dst, pkt.Src)
             refer_idx == Pending(prev_reqs, key)
         IN  /\ ~Unmapped(pkt)
             /\ pkt.Type = TIMEOUT
             /\ pkt.Src \in local_init_ids
             /\ refer_idx # NoRef
             /\ packets' = Append(packets, pkt)
             /\ messages' =
                  Append(SetRefer(messages, refer_idx, msg_id),
                         Message(msg_id, pkt.Src, pkt.Dst,
                                 TimeoutReplyType(messages[refer_idx + 1].type),
                                 refer_idx))
             /\ prev_reqs' = Forget(prev_reqs, key)
    /\ msg_id' = msg_id + 1
    /\ UNCHANGED << req_seen, respnd_ids, external_init_ids, roles_frame >>

\* lines 241-247: the loop is over, the results are stored and returned (a
\* shorter list gives the result of one whose further packets are passed
\* over)
FinishRoles ==
    /\ rpc = "roles"
    /\ Len(packets) = MaxPackets
    /\ rpc' = "classified"
    /\ UNCHANGED << packets, nat, local_init_ids, messages, msg_id, prev_reqs,
                    req_seen, respnd_ids, external_init_ids, local_ids,
                    external_ids, prob_rspnd_local, msgs, strategy, number_ids,
                    max_int_time, start_idx, end_idx, interval, tries, ipc,
                    returned, svars, pvars, vars, cvars >>

NextRoles ==
    \/ SkipPacket
    \/ ProcessRequest
    \/ ProcessReply
    \/ ProcessTimeout
    \/ FinishRoles

SpecRoles == InitRoles /\ [][NextRoles]_<< ivars, pvars, vars, cvars >>

\* the positions of the filtered list whose message refers to another
Referring == {i \in 1..Len(messages) : messages[i].refer_msg_id # NoRef}

\* C25 as stated: in the returned list every message whose refer_msg_id is
\* set refers to a message at an earlier index.
C25_Original ==
    rpc = "classified" =>
        \A i \in Referring : messages[i].refer_msg_id < i - 1

\* C25: in the returned list every reply whose refer_msg_id is set refers
\* to a request at an earlier index of the list, and every request whose
\* refer_msg_id is set refers to a reply at a later index of the list.
C25_RepliesReferBack ==
    rpc = "classified" =>
        \A i \in Referring :
            LET r == messages[i].refer_msg_id
            IN  /\ r \in 0..(Len(messages) - 1)
                /\ IsReply(messages[i].type) =>
                      (r < i - 1 /\ IsRequest(messages[r + 1].type))
                /\ IsRequest(messages[i].type) =>
                      (r > i - 1 /\ IsReply(messages[r + 1].type))

C25_Witness ==
    /\ rpc = "classified"
    /\ Len(messages) = 3
    /\ messages[1].refer_msg_id = NoRef
    /\ messages[2].refer_msg_id = 2
    /\ messages[3].refer_msg_id = 1
    /\ IsRequest(messages[2].type)
    /\ IsReply(messages[3].type)

\* C26: during det_id_roles_and_msgs a message's refer_msg_id is assigned
\* at most once and never overwritten, and in the returned list no message
\* is referenced by more than one other message.
C26_ReferSetOnce ==
    /\ [][ \A i \in 1..Len(messages) :
             messages'[i].refer_msg_id # messages[i].refer_msg_id =>
                messages[i].refer_msg_id = NoRef ]_ivars
    /\ [](\A i \in 1..Len(messages) : messages[i].sets <= 1)
    /\ [](rpc = "classified" =>
            \A i \in Referring, j \in Referring :
               i # j => messages[i].refer_msg_id # messages[j].refer_msg_id)

C26_Witness ==
    /\ rpc = "classified"
    /\ Len(messages) = 3
    /\ IsRequest(messages[1].type)
    /\ messages[1].sets = 1
    /\ messages[2].refer_msg_id = 0
    /\ IsReply(messages[3].type)
    /\ messages[3].src = messages[2].src
    /\ messages[3].dst = messages[2].dst
    /\ messages[3].refer_msg_id = NoRef

\* the packet a step of the loop has just read
ReadPkt == packets'[Len(packets')]
Reads == Len(packets') = Len(packets) + 1

\* C27: a reply that arrives when no request is pending for its pair is
\* dropped: nothing is appended to the filtered list, and neither the
\* responder set nor the external-initiator set changes.
C27_Claim ==
    [][ ( /\ Reads
          /\ IsReply(ReadPkt.Type)
          /\ Pending(prev_reqs, Key(ReadPkt.Dst, ReadPkt.Src)) = NoRef ) =>
            /\ messages' = messages
            /\ respnd_ids' = respnd_ids
            /\ external_init_ids' = external_init_ids ]_ivars

\* the id of the latest request from a to b in the filtered list
LastRequest(a, b) ==
    LET reqs == {i \in 1..Len(messages) :
                    /\ IsRequest(messages[i].type)
                    /\ messages[i].src = a
                    /\ messages[i].dst = b}
    IN  (CHOOSE i \in reqs : \A j \in reqs : j <= i) - 1

\* C30: a reply from B to A that is kept is linked to the most recent
\* pending request from A to B, in both directions, and the pending entry
\* of (A, B) is removed; every other message stays as it was, so earlier
\* requests stay unreferenced; a reply with no pending entry for its pair
\* is linked to no request.
C30_LinksMostRecent ==
    [][ ( /\ Reads
          /\ IsReply(ReadPkt.Type)
          /\ Len(messages') = Len(messages) + 1 ) =>
            LET key == Key(ReadPkt.Dst, ReadPkt.Src)
                new == messages'[Len(messages')]
            IN  IF key \in DOMAIN prev_reqs
                THEN /\ prev_reqs[key] = LastRequest(ReadPkt.Dst, ReadPkt.Src)
                     /\ new.refer_msg_id = prev_reqs[key]
                     /\ messages'[prev_reqs[key] + 1].refer_msg_id = new.id
                     /\ key \notin DOMAIN prev_reqs'
                     /\ \A i \in 1..Len(messages) :
                           i # prev_reqs[key] + 1 => messages'[i] = messages[i]
                ELSE /\ new.refer_msg_id = NoRef
                     /\ SubSeq(messages', 1, Len(messages)) = messages ]_ivars

C30_Witness ==
    /\ Len(messages) = 3
    /\ IsRequest(messages[1].type)
    /\ IsRequest(messages[2].type)
    /\ messages[1].src = messages[2].src
    /\ messages[1].dst = messages[2].dst
    /\ IsReply(messages[3].type)
    /\ messages[1].refer_msg_id = NoRef
    /\ messages[2].refer_msg_id = 2
    /\ messages[3].refer_msg_id = 1
    /\ Key(messages[1].src, messages[1].dst) \notin DOMAIN prev_reqs

\* C31: a request whose destination is a selected initiator and whose
\* source is not: without NAT the source joins the external initiators and
\* the request is appended and registered as pending under its pair; with
\* NAT nothing is appended, no pending entry is made and no role set
\* changes.
C31_ExternalRequest ==
    [][ ( /\ Reads
          /\ IsRequest(ReadPkt.Type)
          /\ ReadPkt.Dst \in local_init_ids
          /\ ReadPkt.Src \notin local_init_ids ) =>
            IF ~nat
            THEN /\ external_init_ids' = external_init_ids \cup {ReadPkt.Src}
                 /\ respnd_ids' = respnd_ids
                 /\ Len(messages') = Len(messages) + 1
                 /\ SubSeq(messages', 1, Len(messages)) = messages
                 /\ messages'[Len(messages')].src = ReadPkt.Src
                 /\ messages'[Len(messages')].dst = ReadPkt.Dst
                 /\ messages'[Len(messages')].type = ReadPkt.Type
                 /\ Key(ReadPkt.Src, ReadPkt.Dst) \in DOMAIN prev_reqs'
                 /\ prev_reqs'[Key(ReadPkt.Src, ReadPkt.Dst)]
                      = messages'[Len(messages')].id
            ELSE /\ messages' = messages
                 /\ prev_reqs' = prev_reqs
                 /\ respnd_ids' = respnd_ids
                 /\ external_init_ids' = external_init_ids ]_ivars

\* behind NAT a request from outside to the selected initiator was read and
\* dropped, and one from the initiator was kept
C31_Witness ==
    /\ nat
    /\ local_init_ids = {1}
    /\ Len(packets) = 2
    /\ packets[1] = [Src |-> 2, Dst |-> 1, Type |-> SALITY_HELLO]
    /\ packets[2] = [Src |-> 1, Dst |-> 2, Type |-> SALITY_HELLO]
    /\ Len(messages) = 1
    /\ messages[1].src = 1
    /\ external_init_ids = {}
    /\ respnd_ids = {2}

\* C32: a timeout whose source is a selected initiator, without NAT and
\* with a pending request for the pair, appends one reply of the type that
\* matches the request (NL reply for an NL request, hello reply otherwise)
\* which refers to the request, makes the request refer to it and removes
\* the pending entry; a timeout with no pending request for the pair, or
\* behind NAT, appends nothing and changes nothing.
C32_TimeoutReply ==
    [][ (Reads /\ ReadPkt.Type = TIMEOUT) =>
          LET key == Key(ReadPkt.Dst, ReadPkt.Src)
              new == messages'[Len(messages')]
          IN  /\ ( /\ ReadPkt.Src \in local_init_ids
                   /\ ~nat
                   /\ key \in DOMAIN prev_reqs ) =>
                     /\ Len(messages') = Len(messages) + 1
                     /\ new.id = msg_id
                     /\ new.src = ReadPkt.Src
                     /\ new.dst = ReadPkt.Dst
                     /\ new.type =
                          IF messages[prev_reqs[key] + 1].type = SALITY_NL_REQUEST
                          THEN SALITY_NL_REPLY ELSE SALITY_HELLO_REPLY
                     /\ new.refer_msg_id = prev_reqs[key]
                     /\ messages'[prev_reqs[key] + 1].refer_msg_id = new.id
                     /\ \A i \in 1..Len(messages) :
                           i # prev_reqs[key] + 1 => messages'[i] = messages[i]
                     /\ key \notin DOMAIN prev_reqs'
                     /\ respnd_ids' = respnd_ids
                     /\ external_init_ids' = external_init_ids
              /\ (nat \/ key \notin DOMAIN prev_reqs) =>
                     /\ messages' = messages
                     /\ msg_id' = msg_id
                     /\ prev_reqs' = prev_reqs
                     /\ req_seen' = req_seen
                     /\ respnd_ids' = respnd_ids
                     /\ external_init_ids' = external_init_ids ]_ivars

\* an NL request from 2 to the selected initiator 1 timed out
C32_Witness ==
    /\ ~nat
    /\ Len(packets) = 2
    /\ packets[2].Type = TIMEOUT
    /\ packets[2].Src \in local_init_ids
    /\ Len(messages) = 2
    /\ messages[1].type = SALITY_NL_REQUEST
    /\ messages[2].type = SALITY_NL_REPLY
    /\ messages[2].refer_msg_id = 0
    /\ messages[1].refer_msg_id = 1
    /\ prev_reqs = << >>

\* C35: the message at position i of the filtered list has id i (counting
\* from 0), and a message whose refer_msg_id is set refers to a position
\* of the list, is referred back to by the message there, and has that
\* message's source as destination and its destination as source.
C35_IdsAndLinks ==
    /\ \A i \in 1..Len(messages) : messages[i].id = i - 1
    /\ \A i \in Referring :
          LET r == messages[i].refer_msg_id
          IN  /\ r \in 0..(Len(messages) - 1)
              /\ messages[r + 1].refer_msg_id = i - 1
              /\ messages[r + 1].src = messages[i].dst
              /\ messages[r + 1].dst = messages[i].src

\* two pairs share the initiator, and each reply is linked to the request
\* of its own pair
C35_Witness ==
    /\ rpc = "classified"
    /\ Len(messages) = 3
    /\ messages[1].dst # messages[2].dst
    /\ messages[1].src = messages[2].src
    /\ IsRequest(messages[1].type)
    /\ IsRequest(messages[2].type)
    /\ messages[3].refer_msg_id = 0
    /\ messages[1].refer_msg_id = 2
    /\ messages[2].refer_msg_id = NoRef

\* C36: every linked request/reply pair has corresponding types: a hello
\* request is linked to a hello reply only, an NL request to an NL reply
\* only.
C36_Claim ==
    \A i \in Referring :
        IsRequest(messages[i].type) =>
            messages[messages[i].refer_msg_id + 1].type
              = IF messages[i].type = SALITY_NL_REQUEST
                THEN SALITY_NL_REPLY ELSE SALITY_HELLO_REPLY

(***************************************************************************)
(* Part 6.  CommunicationProcessor.det_ext_and_local_ids, lines 271-298.  *)
(* The pass runs on what det_id_roles_and_msgs has stored: the selected   *)
(* initiators, the external initiators (lines 188-189 and 205-207 add     *)
(* only IDs outside local_init_ids) and the responders, which may be      *)
(* initiators of either kind as well.  prob_rspnd_local is kept in        *)
(* hundredths, so the weights of line 281 are whole numbers.              *)
(***************************************************************************)

\* prob_rspnd_local = 0, 0.5 and 1, in hundredths
ProbChoices == {0, 50, 100}

\* line 281: the chooser gives "local" with weight prob_rspnd_local*100 and
\* "external" with weight (1-prob_rspnd_local)*100; a value of weight zero
\* is never drawn.  (Weights here are in hundredths of those of the code.)
rspnd_locality(p) ==
    {pos \in {"local", "external"} :
        \/ pos = "local" /\ p > 0
        \/ pos = "external" /\ 100 - p > 0}

\* a variant of the test of line 288 that looks at local_ids only
ClassifiedLocalOnly(id_, loc, ext) == id_ \in loc

\* line 288: the ID has a locality already
AlreadyClassified(id_, loc, ext) == id_ \in loc \/ id_ \in ext

\* sorted(respnd_ids) of line 242, as a sequence
RECURSIVE sorted(_)
sorted(S) ==
    IF S = {} THEN << >>
    ELSE LET m == CHOOSE x \in S : \A y \in S : x <= y
         IN  << m >> \o sorted(S \ {m})

\* lines 287-295: the loop over the responders from position i on, with
\* draw[id_] the value line 291 draws for id_; gives << local_ids,
\* external_ids >>
RECURSIVE DetermineResponders(_, _, _, _, _)
DetermineResponders(ids, i, loc, ext, draw) ==
    IF i > Len(ids) THEN << loc, ext >>
    ELSE IF AlreadyClassified(ids[i], loc, ext)
         THEN DetermineResponders(ids, i + 1, loc, ext, draw)
         ELSE IF draw[ids[i]] = "local"
              THEN DetermineResponders(ids, i + 1, loc \cup {ids[i]}, ext,
                                       draw)
              ELSE DetermineResponders(ids, i + 1, loc, ext \cup {ids[i]},
                                       draw)

\* what the role pass stores (an invariant of SpecRoles): no external
\* initiator is a selected initiator, and there is none behind NAT
StoredRoles ==
    /\ external_init_ids \cap local_init_ids = {}
    /\ nat => external_init_ids = {}

\* det_id_roles_and_msgs has returned; the caller has chosen prob_rspnd_local
InitLocality ==
    \E l \in (SUBSET Peers) \ {{}}, n \in BOOLEAN, p \in ProbChoices :
    \E e \in SUBSET (Peers \ l), r \in SUBSET Peers :
        /\ packets = << >>
        /\ nat = n
        /\ local_init_ids = l
        /\ messages = << >>
        /\ msg_id = 0
        /\ prev_reqs = << >>
        /\ req_seen = FALSE
        /\ respnd_ids = r
        /\ external_init_ids = IF n THEN {} ELSE e
        /\ rpc = "classified"
        /\ local_ids = {}
        /\ external_ids = {}
        /\ prob_rspnd_local = p
        /\ msgs = << >>
        /\ strategy = ""
        /\ number_ids = 0
        /\ max_int_time = 0
        /\ start_idx = 0
        /\ end_idx = 0
        /\ interval = IntervalNone
        /\ tries = 0
        /\ ipc = "idle"
        /\ returned = IntervalNone
        /\ StatsDbIdle
        /\ ParamIdle
        /\ SmbIdle
        /\ CtlIdle

\* lines 277-298, the whole call
det_ext_and_local_ids ==
    /\ rpc = "classified"
    /\ \E draw \in [Peers -> rspnd_locality(prob_rspnd_local)] :
          LET res == DetermineResponders(sorted(respnd_ids), 1,
                                         local_init_ids, external_init_ids,
                                         draw)
          IN  /\ local_ids' = res[1]
              /\ external_ids' = res[2]
    /\ rpc' = "located"
    /\ UNCHANGED << packets, nat, local_init_ids, messages, msg_id, prev_reqs,
                    req_seen, respnd_ids, external_init_ids,
                    prob_rspnd_local, msgs, strategy, number_ids,
                    max_int_time, start_idx, end_idx, interval, tries, ipc,
                    returned, svars, pvars, vars, cvars >>

NextLocality == det_ext_and_local_ids

SpecLocality == InitLocality /\ [][NextLocality]_<< ivars, pvars, vars, cvars >>

\* C28: after det_ext_and_local_ids every selected initiator is local,
\* every external initiator is external, every responder is in exactly one
\* of local_ids and external_ids, the two sets are disjoint and hold
\* nobody else, and the responders without a locality all become local for
\* prob_rspnd_local = 1 and all external for prob_rspnd_local = 0.
C28_ClassifiedOnce ==
    rpc = "located" =>
        LET open == respnd_ids \ (local_init_ids \cup external_init_ids)
        IN  /\ local_init_ids \subseteq local_ids
            /\ external_init_ids \subseteq external_ids
            /\ respnd_ids \subseteq local_ids \cup external_ids
            /\ local_ids \cap external_ids = {}
            /\ local_ids \cup external_ids
                 = local_init_ids \cup external_init_ids \cup respnd_ids
            /\ prob_rspnd_local = 100 => open \subseteq local_ids
            /\ prob_rspnd_local = 0 => open \subseteq external_ids

\* a responding external initiator stays external although every open
\* responder becomes local
C28_Witness ==
    /\ rpc = "located"
    /\ prob_rspnd_local = 100
    /\ local_init_ids = {1}
    /\ external_init_ids = {2}
    /\ respnd_ids = {2, 3}
    /\ local_ids = {1, 3}
    /\ external_ids = {2}

(***************************************************************************)
(* Part 7.  StatsDatabase: the current interval statistics tables, lines   *)
(* 156-193, and process_interval_statistics_query, lines 406-419.  An      *)
(* interval length is a whole number of seconds; 0 stands for 0.0.         *)
(***************************************************************************)
MaxCalls == 2
MaxIntervals == 2

\* the interval lengths a caller passes
IntervalChoices == {0, 1, 2}

\* the lists a caller passes to set_current_interval_statistics_tables
IntervalLists == UNION { [1..n -> IntervalChoices] : n \in 0..MaxIntervals }

\* process_db_query("SELECT name FROM interval_tables WHERE is_default=1")
DefaultTableQuery == default_table

\* lines 180-190: the table name of one interval length
TableNameOf(current_interval) ==
    IF current_interval = 0 THEN DefaultTableQuery
    ELSE IntervalTable(current_interval * 1000000)

\* lines 179-193: the names the loop appends, in order
TableNames(current_intervals) ==
    [i \in 1..Len(current_intervals) |-> TableNameOf(current_intervals[i])]

\* lines 156-163
get_current_interval_statistics_table(tables) ==
    IF Len(tables) > 0 THEN tables[1] ELSE EmptyName

\* __init__ (line 42) has run on a database whose default interval table is
\* calculated or not
InitStatsDb ==
    \E d \in {NoRow, IntervalTable(1000000)} :
        /\ current_interval_statistics_tables = << >>
        /\ default_table = d
        /\ query_table = EmptyName
        /\ spc = "open"
        /\ sdb_hist = [calls |-> 0, first |-> EmptyName, param |-> EmptyName]
        /\ msgs = << >>
        /\ strategy = ""
        /\ number_ids = 0
        /\ max_int_time = 0
        /\ start_idx = 0
        /\ end_idx = 0
        /\ interval = IntervalNone
        /\ tries = 0
        /\ ipc = "idle"
        /\ returned = IntervalNone
        /\ RolesIdle
        /\ ParamIdle
        /\ SmbIdle
        /\ CtlIdle

\* what no operation of the statistics database touches
statsdb_frame == << msgs, strategy, number_ids, max_int_time, start_idx,
                    end_idx, interval, tries, ipc, returned, packets, nat,
                    local_init_ids, messages, msg_id, prev_reqs, req_seen,
                    respnd_ids, external_init_ids, rpc, local_ids,
                    external_ids, prob_rspnd_local, pvars, vars, cvars >>

\* lines 173-193: every name is appended to the list; the history keeps
\* the number of calls and the first name of the last call that gave one
set_current_interval_statistics_tables ==
    /\ spc = "open"
    /\ sdb_hist.calls < MaxCalls
    /\ \E current_intervals \in IntervalLists :
         /\ current_interval_statistics_tables' =
              current_interval_statistics_tables \o TableNames(current_intervals)
         /\ sdb_hist' =
              IF Len(current_intervals) = 0
              THEN [sdb_hist EXCEPT !.calls = @ + 1]
              ELSE [sdb_hist EXCEPT
                      !.calls = @ + 1,
                      !.first = TableNameOf(current_intervals[1])]
    /\ UNCHANGED << default_table, query_table, spc, statsdb_frame >>

\* lines 406-419, up to the table the query is run on; the history keeps
\* the table_param of the call
process_interval_statistics_query ==
    /\ spc = "open"
    /\ \E table_param \in {EmptyName, IntervalTable(2000000)} :
         /\ query_table' =
               IF table_param # EmptyName THEN table_param
               ELSE IF get_current_interval_statistics_table(
                          current_interval_statistics_tables) # EmptyName
               THEN get_current_interval_statistics_table(
                          current_interval_statistics_tables)
               ELSE DefaultTableQuery
         /\ sdb_hist' = [sdb_hist EXCEPT !.param = table_param]
    /\ UNCHANGED << current_interval_statistics_tables, default_table, spc,
                    statsdb_frame >>

NextStatsDb ==
    \/ set_current_interval_statistics_tables
    \/ process_interval_statistics_query

SpecStatsDb == InitStatsDb /\ [][NextStatsDb]_<< ivars, pvars, vars, cvars >>

\* C40: after any sequence of set_current_interval_statistics_tables calls
\* get_current_interval_statistics_table gives the first table of the most
\* recent call (that named one), and this is the table
\* process_interval_statistics_query runs on when no table is passed.
C40_Claim ==
    [][ /\ Len(current_interval_statistics_tables') > 0 =>
              get_current_interval_statistics_table(
                  current_interval_statistics_tables') = sdb_hist'.first
        /\ ( /\ sdb_hist'.calls = sdb_hist.calls
             /\ sdb_hist'.param = EmptyName
             /\ Len(current_interval_statistics_tables) > 0 ) =>
              query_table' = sdb_hist.first ]_svars

====
